---- MODULE Spec2Model ----
(***************************************************************************)
(* Model of the foxbox taxonomy HTTP router (src/src/taxonomy_router.rs)   *)
(* and of the constraint merger Exactly<T> (components/taxonomy util.rs).  *)
(***************************************************************************)
EXTENDS Integers, Sequences, FiniteSets, TLC

VARIABLES
    ex_a, ex_b, ex_c,   \* the three constraints handed to Exactly::and
    ex_r,               \* the results of the combinations, once applied
    fold_acc,           \* accumulator of a fold with Exactly::and
    fold_prev,          \* accumulator before the last fold step
    fold_in,            \* input of the last fold step
    fold_n,             \* number of fold steps done
    pc,                 \* position of the handler: idle, identity, dispatch, done, panicked
    req,                \* the request being handled
    user,               \* the caller identity derived from the request
    derived,            \* number of times the identity was derived for this request
    body_read,          \* whether the request body has been read
    rule,               \* the rule of handle() that took the request (0: the
                        \* fallthrough, -1: not dispatched)
    calls,              \* the manager operations invoked for this request, in order
    resp,               \* the response of the handler
    nresp               \* number of responses produced for this request

exvars == <<ex_a, ex_b, ex_c, ex_r, fold_acc, fold_prev, fold_in, fold_n>>

rtvars == <<pc, req, user, derived, body_read, rule, calls, resp, nresp>>

vars == <<exvars, rtvars>>

(***************************************************************************)
(* Bounds                                                                  *)
(***************************************************************************)
NumIds == 3
MaxFold == 4
NumChannels == 2

(***************************************************************************)
(* util.rs: enum Exactly<Id> { Empty, Exactly(Id), Conflict }              *)
(***************************************************************************)
Ids == 1..NumIds

Empty == [tag |-> "Empty"]
Exactly(v) == [tag |-> "Exactly", v |-> v]
Conflict == [tag |-> "Conflict"]

ExactlyValues == {Empty, Conflict} \cup {Exactly(v) : v \in Ids}

\* A plausible slip: the Empty arm is tried before the Conflict arm, so that
\* Empty on the left lets the right operand through, and an unequal pair keeps
\* the left value.
and_keep_left(self, other) ==
    IF self.tag = "Empty" THEN other
    ELSE IF other.tag = "Empty" THEN self
    ELSE IF self.tag = "Conflict" \/ other.tag = "Conflict" THEN Conflict
    ELSE self

\* A plausible slip: an unequal pair is taken for "no constraint".
and_unequal_is_empty(self, other) ==
    IF self.tag = "Conflict" \/ other.tag = "Conflict" THEN Conflict
    ELSE IF self.tag = "Empty" THEN other
    ELSE IF other.tag = "Empty" THEN self
    ELSE IF self.v = other.v THEN Exactly(other.v)
    ELSE Empty

\* A plausible slip: only (_, Conflict) is matched in the first arm, and a
\* Conflict on the left falls into the arm of Empty.
and_conflict_on_the_right_only(self, other) ==
    IF other.tag = "Conflict" THEN Conflict
    ELSE IF self.tag \in {"Empty", "Conflict"} THEN other
    ELSE IF other.tag = "Empty" THEN self
    ELSE IF self.v = other.v THEN Exactly(other.v)
    ELSE Conflict

\* Exactly::and: the match of util.rs, arm by arm, in the order of the source.
and(self, other) ==
    IF self.tag = "Conflict" \/ other.tag = "Conflict" THEN Conflict
    ELSE IF self.tag = "Empty" THEN other
    ELSE IF other.tag = "Empty" THEN self
    ELSE IF self.v = other.v THEN Exactly(other.v)
    ELSE Conflict

\* impl Default for Exactly: Exactly::Empty
default == Empty

(***************************************************************************)
(* Text.  A content type and a mimetype are strings; they are compared and *)
(* scanned character by character.                                         *)
(***************************************************************************)
\* str::starts_with: the first characters of s are those of prefix.
starts_with(s, prefix) ==
    /\ Len(s) >= Len(prefix)
    /\ SubSeq(s, 1, Len(prefix)) = prefix

\* The printable characters of ASCII in their order, the character of code
\* 96 written as a space (the texts of the headers and of the paths are made
\* of these, and none holds that character).
Printable ==
    " !\"#$%&'()*+,-./0123456789:;<=>?@ABCDEFGHIJKLMNOPQRSTUVWXYZ[\\]^_"
    \o " abcdefghijklmnopqrstuvwxyz{|}~"

\* The code of a character.
CodeOf(c) ==
    31 + (CHOOSE k \in 1..Len(Printable) : SubSeq(Printable, k, k) = c)

\* A text as the sequence of the codes of its characters.
CodePoints(text) == [k \in 1..Len(text) |-> CodeOf(SubSeq(text, k, k))]

\* str::to_ascii_lowercase: A..Z become a..z, every other character stays.
RECURSIVE to_ascii_lowercase(_)
to_ascii_lowercase(piece) ==
    IF piece = "" THEN ""
    ELSE (IF CodeOf(Head(piece)) \in 65..90
          THEN SubSeq(Printable, CodeOf(Head(piece)) + 1, CodeOf(Head(piece)) + 1)
          ELSE Head(piece))
         \o to_ascii_lowercase(Tail(piece))

HasChar(s, i, chars) == i <= Len(s) /\ s[i] \in chars

\* The first position from i on whose element is not in chars, the position
\* after the last one when there is none.
SkipWhile(s, i, chars) ==
    IF i > Len(s) THEN i
    ELSE CHOOSE k \in i..(Len(s) + 1) :
            /\ k > Len(s) \/ s[k] \notin chars
            /\ \A m \in i..(k - 1) : s[m] \in chars

\* The media types of the model, as they are written on the wire.
AppJson == "application/json"
ImagePng == "image/png"
NotAMime == "bogus"

None == [tag |-> "None"]
Some(v) == [tag |-> "Some", v |-> v]
Ok(v) == [tag |-> "Ok", v |-> v]
Err(e) == [tag |-> "Err", e |-> e]

\* hyper::mime::Mime (mime 0.2): top level, sub level, parameters, each
\* parameter a pair <<attribute, value>>.
Mime(top, sub, params) == [top |-> top, sub |-> sub, params |-> params]

\* is_restricted_name_first_char (a..z, 0..9) and is_restricted_name_char
\* (these and ! # $ & - ^ . + _), as sets of codes.
RestrictedNameFirst == (97..122) \cup (48..57)
RestrictedName == RestrictedNameFirst \cup {33, 35, 36, 38, 45, 94, 46, 43, 95}

\* str::parse::<Mime>() as the handler uses it (line 46, and behind the typed
\* ContentType header of line 161).  raw is the text, ascii its lower case,
\* c the codes of ascii; positions count from 1.
\*
\* param_from_str, once the value of the parameter attr is known to be
\* raw[from..end] (ascii[from..end] for a charset): the parameter is kept,
\* and the next one is read from position next unless the text ends there.
RECURSIVE MimeParams(_, _, _, _, _)
MimeParamEnd(raw, ascii, c, acc, attr, from, end, next) ==
    IF next > Len(c)
    THEN Append(acc, <<attr, SubSeq(IF attr = "charset" THEN ascii ELSE raw,
                                    from, end)>>)
    ELSE MimeParams(raw, ascii, c, next,
                    Append(acc, <<attr, SubSeq(IF attr = "charset" THEN ascii ELSE raw,
                                               from, end)>>))

\* The value of a parameter from position v0 on.  After an opening quote
\* (every quote at the start of the value opens it) the first character is
\* a name character and the value runs to the next quote or to the end of
\* the text; without a quote the value is made of name characters and ends
\* at a ";" or at the end of the text.  Any other text is no parameter: the
\* parameters read so far are the result.
MimeParamValue(raw, ascii, c, acc, attr, v0, q, end) ==
    IF q > v0
    THEN IF q > Len(c) THEN MimeParamEnd(raw, ascii, c, acc, attr, q, Len(c), q)
         ELSE IF c[q] \notin RestrictedName THEN acc
         ELSE MimeParamEnd(raw, ascii, c, acc, attr, q,
                           SkipWhile(c, q + 1, {c[m] : m \in 1..Len(c)} \ {34}) - 1,
                           SkipWhile(c, q + 1, {c[m] : m \in 1..Len(c)} \ {34}) + 1)
    ELSE IF end > Len(c) THEN MimeParamEnd(raw, ascii, c, acc, attr, v0, Len(c), end)
    ELSE IF c[end] = 59 /\ end > v0
         THEN MimeParamEnd(raw, ascii, c, acc, attr, v0, end - 1, end + 1)
    ELSE acc

\* The name of a parameter from position s1 on (the spaces before it are
\* skipped): a first character, name characters up to position e, and "=".
MimeParamName(raw, ascii, c, acc, s1, e) ==
    IF HasChar(c, s1, RestrictedNameFirst) /\ HasChar(c, e, {61})
    THEN MimeParamValue(raw, ascii, c, acc, SubSeq(ascii, s1, e - 1), e + 1,
                        SkipWhile(c, e + 1, {34}),
                        SkipWhile(c, e + 1, RestrictedName))
    ELSE acc

\* The parameters from position start on, after those of acc.
MimeParams(raw, ascii, c, start, acc) ==
    MimeParamName(raw, ascii, c, acc, SkipWhile(c, start, {32}),
                  SkipWhile(c, SkipWhile(c, start, {32}), RestrictedName))

\* The sub level from position start to before position end, then the
\* parameters: the text ends after the sub level, or a ";" follows it.
MimeSub(raw, ascii, c, start, end) ==
    IF end > Len(c)
    THEN Ok(Mime(SubSeq(ascii, 1, start - 2), SubSeq(ascii, start, Len(c)), <<>>))
    ELSE IF c[end] = 59 /\ end > start
    THEN Ok(Mime(SubSeq(ascii, 1, start - 2), SubSeq(ascii, start, end - 1),
                 MimeParams(raw, ascii, c, end + 1, <<>>)))
    ELSE Err("mime")

\* The top level is a first character and name characters up to a "/" at
\* position i; the sub level is "*", or a first character and name
\* characters.
MimeTop(raw, ascii, c, i) ==
    IF HasChar(c, 1, RestrictedNameFirst) /\ HasChar(c, i, {47})
    THEN MimeSub(raw, ascii, c, i + 1,
                 IF HasChar(c, i + 1, {42}) THEN i + 2
                 ELSE IF HasChar(c, i + 1, RestrictedNameFirst)
                      THEN SkipWhile(c, i + 1, RestrictedName)
                      ELSE i + 1)
    ELSE Err("mime")

MimeParse(raw) ==
    IF raw = "*/*" THEN Ok(Mime("*", "*", <<>>))
    ELSE MimeTop(raw, to_ascii_lowercase(raw), CodePoints(to_ascii_lowercase(raw)),
                 SkipWhile(CodePoints(to_ascii_lowercase(raw)), 1, RestrictedName))

\* format!("{}", mime): top/sub, then "; attribute=value" for each parameter.
RECURSIVE MimeParamsDisplay(_)
MimeParamsDisplay(ps) ==
    IF ps = <<>> THEN ""
    ELSE "; " \o ps[1][1] \o "=" \o ps[1][2] \o MimeParamsDisplay(Tail(ps))

MimeDisplay(m) == m.top \o "/" \o m.sub \o MimeParamsDisplay(m.params)

(***************************************************************************)
(* Requests                                                                *)
(***************************************************************************)
ChannelIdSeq == <<"c1", "c2", "c3", "c4">>
ChannelIds == {ChannelIdSeq[i] : i \in 1..NumChannels}

\* req.url.path(): the segments of the url below the mount point.
Paths ==
    { <<"services">>, <<"channels">>,
      <<"services", "tags">>, <<"channels", "tags">>,
      <<"channels", "get">>, <<"channels", "set">>,
      <<"channel", "c1">>, <<"channel", "get">>,
      <<"channel">>, <<"channel", "c1", "x">>,
      <<"bogus">>, <<"services", "">> }

\* The Authorization header: absent, of another scheme, or Bearer <token>.
NoAuth == [scheme |-> "none"]
Bearer(token) == [scheme |-> "Bearer", token |-> token]
AuthHeaders ==
    {NoAuth, [scheme |-> "Basic"]}
    \cup {Bearer(t) : t \in {"tok_alice", "tok_bob", "tok_forged"}}

\* The Content-Type header as written by the client (None: not sent).
ContentTypeHeaders ==
    {None} \cup
    {Some(t) : t \in { AppJson, "application/json;charset=utf-8",
                       "Application/JSON", "application/jsonx",
                       "application/json-patch+json",
                       ImagePng, "IMAGE/PNG", "text/plain;charset=UTF-8",
                       "multipart/form-data; boundary=ABCdef",
                       "text/plain; name=\"a b\"", "image/png; =x",
                       NotAMime }}

\* The bytes of the request bodies of the model.
BodyEmpty == <<>>
\* two bytes that occur in no UTF-8 text
BodyNotUtf8 == <<255, 254>>
\* ABCDEF
BodyABCDEF ==
    <<65, 66, 67, 68, 69, 70>>
\* [{"id":"c1"}]
BodySelectors ==
    <<91, 123, 34, 105, 100, 34, 58, 34, 99, 49, 34, 125, 93>>
\* [0.1]
BodyNumbers ==
    <<91, 48, 46, 49, 93>>
\* {"services":[{"id":"s1"}],"tags":["t1"]}
BodyServiceTags ==
    <<123, 34, 115, 101, 114, 118, 105, 99, 101, 115, 34, 58, 91, 123, 34,
      105, 100, 34, 58, 34, 115, 49, 34, 125, 93, 44, 34, 116, 97, 103, 115,
      34, 58, 91, 34, 116, 49, 34, 93, 125>>
\* {"channels":[{"id":"c1"}],"tags":["t1"]}
BodyChannelTags ==
    <<123, 34, 99, 104, 97, 110, 110, 101, 108, 115, 34, 58, 91, 123, 34,
      105, 100, 34, 58, 34, 99, 49, 34, 125, 93, 44, 34, 116, 97, 103, 115,
      34, 58, 91, 34, 116, 49, 34, 93, 125>>
\* {"tags":["t1"]}
BodyTagsOnly ==
    <<123, 34, 116, 97, 103, 115, 34, 58, 91, 34, 116, 49, 34, 93, 125>>
\* [{"select":{"id":"c1"},"value":1}]
BodyTargetMap ==
    <<91, 123, 34, 115, 101, 108, 101, 99, 116, 34, 58, 123, 34, 105, 100,
      34, 58, 34, 99, 49, 34, 125, 44, 34, 118, 97, 108, 117, 101, 34, 58,
      49, 125, 93>>
\* { "json_body": true }, the body of the binary_getter test
BodyJsonObject ==
    <<123, 32, 34, 106, 115, 111, 110, 95, 98, 111, 100, 121, 34, 58, 32,
      116, 114, 117, 101, 32, 125>>

\* "é" between quotes, in UTF-8: a JSON string
BodyUtf8 == <<34, 195, 169, 34>>

\* req.body, the reader of the body: the bytes the client sends, and whether
\* the connection fails before the last of them is read.
Body(bytes) == [bytes |-> bytes, broken |-> FALSE]

Bodies ==
    { Body(b) : b \in { BodyEmpty, BodyNotUtf8, BodyUtf8, BodyABCDEF,
                        BodySelectors, BodyNumbers, BodyServiceTags,
                        BodyChannelTags, BodyTagsOnly, BodyTargetMap,
                        BodyJsonObject } }
    \cup {[bytes |-> BodySelectors, broken |-> TRUE]}

Requests ==
    [method : {"GET", "POST", "PUT", "DELETE", "PATCH"}, path : Paths,
     auth : AuthHeaders, content_type : ContentTypeHeaders, body : Bodies]

NoRequest == [method |-> "-"]

(***************************************************************************)
(* Collaborators of the handler: session tokens, serde_json, the decoders  *)
(* and the values of the taxonomy crate.                                   *)
(***************************************************************************)

\* SessionToken::from_string: Ok(token) with the claims of a token the box
\* signed, Err for any other.
SessionTokenFromString(token) ==
    CASE token = "tok_alice" -> Ok([claims |-> [id |-> 1]])
      [] token = "tok_bob" -> Ok([claims |-> [id |-> 2]])
      [] OTHER -> Err("invalid token")

\* api::User
UserNone == [tag |-> "User::None"]
UserId(id) == [tag |-> "User::Id", id |-> id]

\* JSON documents.  A string is the sequence of its code points, an object
\* a function from its keys.
JNull == [tag |-> "null"]
JNum(n) == [tag |-> "number", v |-> n]
\* an integer of more than nine digits that fits u64, or i64 when negative
JInt(neg, digits) == [tag |-> "integer", neg |-> neg, digits |-> digits]
\* a float: the sixteen hexadecimal digits of the 64 bits of the f64
JFloat(bits) == [tag |-> "float", bits |-> bits]
JStr(s) == [tag |-> "string", v |-> s]
JBool(b) == [tag |-> "bool", v |-> b]
JArr(items) == [tag |-> "array", v |-> items]
JObj(fields) == [tag |-> "object", v |-> fields]

\* The second byte a UTF-8 sequence may have after its first byte.
SecondByte(lead) ==
    CASE lead = 224 -> 160..191
      [] lead = 237 -> 128..159
      [] lead = 240 -> 144..191
      [] lead = 244 -> 128..143
      [] OTHER -> 128..191

\* String::from_utf8: the code points of the bytes from position i, after acc.
RECURSIVE FromUtf8(_, _, _)
FromUtf8(b, i, acc) ==
    IF i > Len(b) THEN Ok(acc)
    ELSE IF b[i] < 128
         THEN FromUtf8(b, SkipWhile(b, i, 0..127),
                       acc \o SubSeq(b, i, SkipWhile(b, i, 0..127) - 1))
    ELSE IF b[i] \in 194..223 /\ HasChar(b, i + 1, 128..191)
         THEN FromUtf8(b, i + 2, Append(acc, (b[i] - 192) * 64 + (b[i + 1] - 128)))
    ELSE IF /\ b[i] \in 224..239
            /\ HasChar(b, i + 1, SecondByte(b[i]))
            /\ HasChar(b, i + 2, 128..191)
         THEN FromUtf8(b, i + 3,
                       Append(acc, (b[i] - 224) * 4096 + (b[i + 1] - 128) * 64
                                   + (b[i + 2] - 128)))
    ELSE IF /\ b[i] \in 240..244
            /\ HasChar(b, i + 1, SecondByte(b[i]))
            /\ HasChar(b, i + 2, 128..191) /\ HasChar(b, i + 3, 128..191)
         THEN FromUtf8(b, i + 4,
                       Append(acc, (b[i] - 240) * 262144 + (b[i + 1] - 128) * 4096
                                   + (b[i + 2] - 128) * 64 + (b[i + 3] - 128)))
    ELSE Err("stream did not contain valid UTF-8")

\* Read::read_to_end on the body: the bytes, or the io::Error of the
\* connection.
read_to_end(body) ==
    IF body.broken THEN Err("connection reset") ELSE Ok(body.bytes)

\* read_body_to_string, lines 72-76: Read::read_to_string on the body, the
\* text, or an io::Error when the read fails or the bytes are not UTF-8.
read_body_to_string(body) ==
    IF body.broken THEN Err("connection reset") ELSE FromUtf8(body.bytes, 1, <<>>)

HexValue(c) == IF c <= 57 THEN c - 48 ELSE IF c <= 70 THEN c - 55 ELSE c - 87

\* The result of a step of the parser: the value and the position after it.
Parsed(v, next) == [ok |-> TRUE, v |-> v, next |-> next]
ParseFailed == [ok |-> FALSE]

SkipWhitespace(s, i) == SkipWhile(s, i, {32, 9, 10, 13})

\* The value of the four hex digits from position k, -1 when they are not
\* there.
Hex4(s, k) ==
    IF /\ k + 3 <= Len(s)
       /\ \A m \in k..(k + 3) : s[m] \in (48..57) \cup (65..70) \cup (97..102)
    THEN HexValue(s[k]) * 4096 + HexValue(s[k + 1]) * 256
         + HexValue(s[k + 2]) * 16 + HexValue(s[k + 3])
    ELSE 0 - 1

RECURSIVE ParseStringFrom(_, _, _)

\* The escape \uXXXX at position j, of value cp (-1: no four hex digits): a
\* leading surrogate needs its trailing surrogate in a second escape, a
\* trailing one alone is an error.
UnicodeEscape(s, j, acc, cp) ==
    IF cp < 0 \/ cp \in 56320..57343 THEN ParseFailed
    ELSE IF cp \notin 55296..56319 THEN ParseStringFrom(s, j + 6, Append(acc, cp))
    ELSE IF /\ HasChar(s, j + 6, {92}) /\ HasChar(s, j + 7, {117})
            /\ Hex4(s, j + 8) \in 56320..57343
         THEN ParseStringFrom(s, j + 12,
                 Append(acc, 65536 + (cp - 55296) * 1024 + (Hex4(s, j + 8) - 56320)))
    ELSE ParseFailed

\* The text after an opening quote, up to the closing one; j is the position
\* being read and acc the text read so far.  A run of characters other than
\* the quote, the backslash and the control characters is copied; \b \f \n
\* \r \t stand for their control character, \" \\ \/ for themselves.
ParseStringFrom(s, j, acc) ==
    IF j > Len(s) THEN ParseFailed
    ELSE IF s[j] = 34 THEN Parsed(acc, j + 1)
    ELSE IF s[j] < 32 THEN ParseFailed
    ELSE IF s[j] # 92
         THEN ParseStringFrom(s,
                 SkipWhile(s, j, {s[m] : m \in j..Len(s)} \ ({34, 92} \cup (0..31))),
                 acc \o SubSeq(s, j,
                    SkipWhile(s, j, {s[m] : m \in j..Len(s)} \ ({34, 92} \cup (0..31)))
                    - 1))
    ELSE IF j + 1 > Len(s) THEN ParseFailed
    ELSE IF s[j + 1] \in {34, 92, 47, 98, 102, 110, 114, 116}
         THEN ParseStringFrom(s, j + 2,
                 Append(acc, CASE s[j + 1] = 98 -> 8
                               [] s[j + 1] = 102 -> 12
                               [] s[j + 1] = 110 -> 10
                               [] s[j + 1] = 114 -> 13
                               [] s[j + 1] = 116 -> 9
                               [] OTHER -> s[j + 1]))
    ELSE IF s[j + 1] = 117 THEN UnicodeEscape(s, j, acc, Hex4(s, j + 2))
    ELSE ParseFailed

\* Numbers.  The digits of s from position a to position b.
DigitsOf(s, a, b) == [k \in 1..(b - a + 1) |-> s[a + k - 1] - 48]

\* Digits without the zeros in front.
StripLeading(ds) == SubSeq(ds, SkipWhile(ds, 1, {0}), Len(ds))

RECURSIVE DigitsValue(_)
DigitsValue(ds) ==
    IF ds = <<>> THEN 0
    ELSE DigitsValue(SubSeq(ds, 1, Len(ds) - 1)) * 10 + ds[Len(ds)]

\* 0.a < 0.b, for two sequences of digits
Before(a, b) ==
    \E k \in 1..(Len(a) + Len(b)) :
        /\ (IF k <= Len(a) THEN a[k] ELSE 0) < (IF k <= Len(b) THEN b[k] ELSE 0)
        /\ \A m \in 1..(k - 1) :
              (IF m <= Len(a) THEN a[m] ELSE 0) = (IF m <= Len(b) THEN b[m] ELSE 0)

\* The number that the digits ds write is at most the one that max writes
\* (overflow!(n * 10 + digit, max) is false at each digit of ds).
AtMost(ds, max) ==
    \/ Len(StripLeading(ds)) < Len(max)
    \/ Len(StripLeading(ds)) = Len(max) /\ ~Before(max, StripLeading(ds))

\* How many of the digits more the significand takes after the digits ds:
\* those before the first one that would take it past u64::MAX
\* (18446744073709551615).
Taken(ds, more) ==
    CHOOSE n \in 0..Len(more) :
        /\ AtMost(ds \o SubSeq(more, 1, n),
                  <<1, 8, 4, 4, 6, 7, 4, 4, 0, 7, 3, 7, 0, 9, 5, 5, 1, 6, 1, 5>>)
        /\ \/ n = Len(more)
           \/ ~AtMost(ds \o SubSeq(more, 1, n + 1),
                      <<1, 8, 4, 4, 6, 7, 4, 4, 0, 7, 3, 7, 0, 9, 5, 5, 1, 6, 1, 5>>)

\* Natural numbers of more than 31 bits (a u64, its products, quotients):
\* the sequence of the digits in base 4096, the least one first, without a
\* zero at the end (zero is the empty sequence).
Trim(a) ==
    SubSeq(a, 1, CHOOSE n \in 0..Len(a) :
                     /\ n = 0 \/ a[n] # 0
                     /\ \A m \in (n + 1)..Len(a) : a[m] = 0)

\* One pass of carrying: each digit keeps its part below 4096 and takes the
\* rest of the digit before it.
Spread(c) ==
    [j \in 1..(Len(c) + 1) |->
        (IF j <= Len(c) THEN c[j] % 4096 ELSE 0)
        + (IF j > 1 THEN c[j - 1] \div 4096 ELSE 0)] \o <<>>

\* The last pass, on digits up to 4096: a digit takes one when the nearest
\* digit below it that is not 4095 is 4096.
Ripple(e) ==
    [j \in 1..Len(e) |->
        (e[j] + (IF \E i \in 1..(j - 1) :
                       /\ e[i] = 4096
                       /\ \A m \in (i + 1)..(j - 1) : e[m] = 4095
                 THEN 1 ELSE 0)) % 4096] \o <<>>

\* The number whose digits, before carrying, are c (each below 2^31).
Carried(c) == Trim(Ripple(Spread(Spread(Spread(c)))))

RECURSIVE Sum(_)
Sum(s) ==
    IF Len(s) = 0 THEN 0
    ELSE IF Len(s) = 1 THEN s[1]
    ELSE Sum(SubSeq(s, 1, Len(s) \div 2)) + Sum(SubSeq(s, Len(s) \div 2 + 1, Len(s)))

Add(a, b) ==
    Carried([j \in 1..(IF Len(a) > Len(b) THEN Len(a) ELSE Len(b)) |->
                (IF j <= Len(a) THEN a[j] ELSE 0) + (IF j <= Len(b) THEN b[j] ELSE 0)])

\* a - b, for a >= b
Sub(a, b) ==
    Trim(SubSeq(Carried([j \in 1..Len(a) |->
                            a[j] + 4095 - (IF j <= Len(b) THEN b[j] ELSE 0)
                            + (IF j = 1 THEN 1 ELSE 0)]),
                1, Len(a)))

Mul(a, b) ==
    IF a = <<>> \/ b = <<>> THEN <<>>
    ELSE Carried([j \in 1..(Len(a) + Len(b) - 1) |->
                    Sum([k \in 1..((IF j < Len(a) THEN j ELSE Len(a))
                                   - (IF j > Len(b) THEN j - Len(b) ELSE 0)) |->
                            a[k + (IF j > Len(b) THEN j - Len(b) ELSE 0)]
                            * b[j + 1 - k - (IF j > Len(b) THEN j - Len(b) ELSE 0)]])])

\* a < b
Less(a, b) ==
    \/ Len(a) < Len(b)
    \/ /\ Len(a) = Len(b)
       /\ \E k \in 1..Len(a) :
             /\ a[k] < b[k]
             /\ \A m \in (k + 1)..Len(a) : a[m] = b[m]

\* The number of binary digits of a.
BitLen(a) ==
    IF a = <<>> THEN 0
    ELSE 12 * (Len(a) - 1) + (CHOOSE k \in 1..12 : a[Len(a)] < 2^k /\ a[Len(a)] >= 2^(k - 1))

\* 2^t
Pow2(t) == [j \in 1..(t \div 12 + 1) |-> IF j = t \div 12 + 1 THEN 2^(t % 12) ELSE 0] \o <<>>

\* a div 2^t and a mod 2^t
Shr(a, t) ==
    Trim([j \in 1..(Len(a) - t \div 12) |->
            a[j + t \div 12] \div 2^(t % 12)
            + (IF j + t \div 12 < Len(a)
               THEN (a[j + t \div 12 + 1] % 2^(t % 12)) * 2^(12 - (t % 12))
               ELSE 0)] \o <<>>)

Low(a, t) ==
    Trim([j \in 1..(IF Len(a) <= t \div 12 THEN Len(a) ELSE t \div 12 + 1) |->
            IF j <= t \div 12 THEN a[j] ELSE a[j] % 2^(t % 12)] \o <<>>)

\* The digit of the quotient of r by d, for d <= r < 4096 * d and the first
\* digit of d at least 2048: at most two below guess, the quotient of the
\* first digits (4095 at most).
QuotientDigit(r, d, guess) ==
    CHOOSE g \in (guess - 2)..guess :
        /\ g >= 1
        /\ ~Less(r, Mul(d, <<g>>))
        /\ Less(r, Mul(d, <<g + 1>>))

\* Long division of n by d, from the digit i of n down, r being what is
\* left of the digits above i and q the digits of the quotient so far: the
\* quotient, and whether nothing is left.
RECURSIVE DivLoop(_, _, _, _, _)
DivTake(n, d, i, r, q, g) == DivLoop(n, d, i - 1, Sub(r, Mul(d, <<g>>)), <<g>> \o q)

DivDigit(n, d, i, r, q) ==
    IF Less(r, d) THEN DivLoop(n, d, i - 1, r, <<0>> \o q)
    ELSE DivTake(n, d, i, r, q,
                 QuotientDigit(r, d,
                     IF ((IF Len(r) > Len(d) THEN r[Len(d) + 1] * 4096 ELSE 0) + r[Len(d)])
                        \div d[Len(d)] < 4096
                     THEN ((IF Len(r) > Len(d) THEN r[Len(d) + 1] * 4096 ELSE 0) + r[Len(d)])
                          \div d[Len(d)]
                     ELSE 4095))

DivLoop(n, d, i, r, q) ==
    IF i = 0 THEN [q |-> Trim(q), exact |-> r = <<>>]
    ELSE DivDigit(n, d, i, Trim(<<n[i]>> \o r), q)

DivFrom(n, d) ==
    IF Len(n) < Len(d) THEN [q |-> <<>>, exact |-> n = <<>>]
    ELSE DivLoop(n, d, Len(n) - Len(d) + 1,
                 SubSeq(n, Len(n) - Len(d) + 2, Len(n)), <<>>)

\* n div d and whether d divides n, for d > 0: both are doubled until the
\* first digit of d is 2048 at least.
DivMod(n, d) ==
    DivFrom(Mul(n, Pow2(12 - BitLen(<<d[Len(d)]>>))),
            Mul(d, Pow2(12 - BitLen(<<d[Len(d)]>>))))

\* An f64 that is not negative, as the number its 64 bits write: 52 bits of
\* fraction under 11 bits of exponent.  Infinity has the exponent 2047.
Infinity == Mul(<<2047>>, Pow2(52))

\* The bits of the f64 for the quotient q (66 or 67 binary digits, exact or
\* cut) times 2^x, rounded to the nearest, to the even one of two as near:
\* drop digits of q go, base is the exponent field less one (zero for a
\* subnormal).
Packed(q, exact, drop, base) ==
    Add(Mul(IF base = 0 THEN <<>> ELSE <<base>>, Pow2(52)),
        Add(Shr(q, drop),
            IF \/ Less(Pow2(drop - 1), Low(q, drop))
               \/ /\ Low(q, drop) = Pow2(drop - 1)
                  /\ \/ ~exact
                     \/ Shr(q, drop) # <<>> /\ Shr(q, drop)[1] % 2 = 1
            THEN <<1>> ELSE <<>>))

\* e is the exponent of the first binary digit of the value: 53 digits are
\* kept from 2^-1022 on, those down to 2^-1074 below it.
Rounded(q, exact, e) ==
    IF e > 1023 THEN Infinity
    ELSE IF e < 0 - 1075 THEN <<>>
    ELSE IF e >= 0 - 1022 THEN Packed(q, exact, BitLen(q) - 53, e + 1022)
    ELSE Packed(q, exact, BitLen(q) - (e + 1075), 0)

RoundQuotient(qr, x) == Rounded(qr.q, qr.exact, BitLen(qr.q) - 1 + x)

\* The f64 nearest to n / d * 2^s, for n > 0 and d > 0: the quotient is
\* taken with 66 binary digits at least.
RoundF64(n, d, s) ==
    RoundQuotient(DivMod(Mul(n, Pow2(IF 66 + BitLen(d) - BitLen(n) >= 0
                                     THEN 66 + BitLen(d) - BitLen(n) ELSE 0)),
                         Mul(d, Pow2(IF 66 + BitLen(d) - BitLen(n) >= 0
                                     THEN 0 ELSE BitLen(n) - BitLen(d) - 66))),
                  s - (66 + BitLen(d) - BitLen(n)))

\* The exponent field of an f64, its significand as a number and the power
\* of two that the significand is counted in.
BiasedExp(x) == IF Shr(x, 52) = <<>> THEN 0 ELSE Shr(x, 52)[1]
Mant(x) == IF BiasedExp(x) = 0 THEN Low(x, 52) ELSE Add(Low(x, 52), Pow2(52))
Exp2(x) == IF BiasedExp(x) = 0 THEN 0 - 1074 ELSE BiasedExp(x) - 1075

\* x * y (times) or x / y of two f64, y being neither zero nor infinite.
F64Scale(x, y, times) ==
    IF x = <<>> THEN <<>>
    ELSE RoundF64(IF times THEN Mul(Mant(x), Mant(y)) ELSE Mant(x),
                  IF times THEN <<1>> ELSE Mant(y),
                  IF times THEN Exp2(x) + Exp2(y) ELSE Exp2(x) - Exp2(y))

\* The table POW10 of the f64 written 1e0, 1e1, ... up to 1e308, each the
\* f64 nearest to the power of ten; POW10[k + 1] is 1e<k>.
POW10 ==
    <<<<0, 0, 0, 0, 4080, 3>>, <<0, 0, 0, 0, 36, 4>>, <<0, 0, 0, 0, 89, 4>>,
      <<0, 0, 0, 1024, 143, 4>>, <<0, 0, 0, 2176, 195, 4>>, <<0, 0, 0, 1696, 248, 4>>,
      <<0, 0, 0, 2120, 302, 4>>, <<0, 0, 0, 301, 355, 4>>, <<0, 0, 1024, 3448, 407, 4>>,
      <<0, 0, 1280, 3286, 461, 4>>, <<0, 0, 3872, 2565, 514, 4>>, <<0, 0, 1768, 1159, 567, 4>>,
      <<0, 0, 1186, 425, 621, 4>>, <<0, 1024, 3301, 777, 674, 4>>, <<0, 2304, 1054, 3020, 726, 4>>,
      <<0, 832, 1318, 1727, 780, 4>>, <<0, 3592, 2359, 3127, 833, 4>>, <<0, 3466, 1925, 837, 886, 4>>,
      <<2048, 1260, 3431, 3094, 939, 4>>, <<3328, 2323, 1120, 1422, 993, 4>>, <<3136, 2904, 3448, 2801, 1045, 4>>,
      <<3920, 3630, 1238, 430, 1099, 4>>, <<1426, 1245, 3846, 3852, 1152, 4>>, <<2806, 3604, 711, 720, 1205, 4>>,
      <<3508, 3481, 889, 1924, 1258, 4>>, <<657, 640, 2604, 2226, 1312, 4>>, <<821, 800, 1207, 2783, 1364, 4>>,
      <<1026, 4072, 484, 3479, 1417, 4>>, <<641, 497, 1839, 638, 1472, 4>>, <<1825, 3693, 250, 798, 1524, 4>>,
      <<3306, 2568, 2361, 997, 1577, 4>>, <<36, 139, 3976, 2270, 1631, 4>>, <<3607, 86, 1461, 2955, 1683, 4>>,
      <<2460, 1132, 802, 2670, 1736, 4>>, <<3075, 3463, 3050, 3337, 1790, 4>>, <<3458, 3188, 370, 1062, 1843, 4>>,
      <<227, 1938, 2511, 303, 1896, 4>>, <<2331, 1398, 2115, 379, 1950, 4>>, <<433, 362, 810, 3309, 2002, 4>>,
      <<2589, 2500, 2036, 2088, 2055, 4>>, <<3237, 3125, 2545, 1586, 2109, 4>>, <<2535, 417, 2615, 1503, 2162, 4>>,
      <<97, 3594, 2244, 3927, 2214, 4>>, <<2169, 396, 1782, 2861, 2268, 4>>, <<3404, 3319, 1625, 3836, 2321, 4>>,
      <<3230, 1077, 2032, 1723, 2374, 4>>, <<966, 1347, 1516, 106, 2428, 4>>, <<92, 2890, 1971, 2114, 2481, 4>>,
      <<2163, 2588, 416, 3667, 2533, 4>>, <<2703, 3235, 3592, 1511, 2587, 4>>, <<1178, 2022, 3781, 432, 2641, 4>>,
      <<3520, 3551, 630, 1565, 2693, 4>>, <<3376, 2391, 1812, 2980, 2746, 4>>, <<3646, 3542, 3180, 2886, 2800, 4>>,
      <<2510, 332, 1928, 3608, 2852, 4>>, <<3137, 415, 2410, 414, 2906, 4>>, <<3497, 1283, 482, 1283, 2960, 4>>,
      <<3347, 3652, 3674, 1603, 3012, 4>>, <<87, 2518, 3569, 2004, 3065, 4>>, <<2157, 75, 366, 3530, 3119, 4>>,
      <<836, 3119, 1252, 3742, 3171, 4>>, <<21, 3899, 3613, 3653, 3224, 4>>, <<3099, 1801, 1445, 471, 3279, 4>>,
      <<401, 1638, 2439, 1830, 3331, 4>>, <<2549, 1023, 1001, 1264, 3384, 4>>, <<2162, 2303, 1251, 1580, 3438, 4>>,
      <<2887, 927, 2830, 4059, 3490, 4>>, <<2585, 3207, 2513, 3026, 3543, 4>>, <<2207, 937, 1094, 2759, 3597, 4>>,
      <<3940, 3657, 2219, 2236, 3650, 4>>, <<1853, 3548, 2774, 747, 3703, 4>>, <<2316, 2387, 2444, 4006, 3756, 4>>,
      <<935, 3540, 503, 456, 3810, 4>>, <<1169, 3401, 629, 2618, 3862, 4>>, <<2485, 1179, 2835, 1224, 3916, 4>>,
      <<1041, 225, 1772, 2813, 3969, 4>>, <<2326, 281, 3239, 444, 4022, 4>>, <<3931, 3423, 4048, 2603, 4075, 4>>,
      <<3993, 2139, 2018, 1115, 33, 5>>, <<3967, 626, 1499, 2418, 85, 5>>, <<2911, 3855, 3921, 4046, 138, 5>>,
      <<3355, 873, 1427, 3553, 192, 5>>, <<1122, 68, 2808, 345, 245, 5>>, <<1403, 85, 438, 1456, 298, 5>>,
      <<1389, 3125, 273, 1934, 352, 5>>, <<2760, 834, 2390, 2417, 404, 5>>, <<1402, 3091, 4011, 3021, 457, 5>>,
      <<364, 1420, 3019, 352, 512, 5>>, <<455, 751, 3774, 440, 564, 5>>, <<3641, 2986, 621, 551, 617, 5>>,
      <<2503, 661, 3849, 1712, 671, 5>>, <<2077, 2973, 2405, 2606, 723, 5>>, <<3620, 644, 959, 2234, 776, 5>>,
      <<429, 3878, 3246, 2792, 830, 5>>, <<3340, 1399, 2029, 721, 883, 5>>, <<3151, 2773, 3560, 3973, 935, 5>>,
      <<867, 3467, 1378, 3943, 989, 5>>, <<30, 3191, 2397, 2976, 1042, 5>>, <<3109, 916, 2997, 1672, 1095, 5>>,
      <<3886, 2169, 3746, 1066, 1149, 5>>, <<893, 2380, 3365, 1178, 1202, 5>>, <<1116, 3999, 2158, 3521, 1254, 5>>,
      <<371, 2951, 3722, 2353, 1308, 5>>, <<1768, 2868, 790, 3519, 1361, 5>>, <<2210, 1537, 4060, 1326, 1414, 5>>,
      <<3786, 1921, 3027, 3706, 1467, 5>>, <<831, 689, 2916, 1804, 1521, 5>>, <<2062, 861, 3645, 3279, 1573, 5>>,
      <<3602, 2100, 3532, 1027, 1627, 5>>, <<203, 3361, 1695, 130, 1681, 5>>, <<1278, 3177, 71, 1187, 1733, 5>>,
      <<2621, 2947, 3161, 2507, 1786, 5>>, <<1126, 306, 1464, 2591, 1840, 5>>, <<3456, 382, 806, 3239, 1892, 5>>,
      <<2272, 2526, 4079, 4048, 1945, 5>>, <<396, 3115, 2549, 994, 2000, 5>>, <<3567, 821, 1139, 1243, 2052, 5>>,
      <<1387, 3, 400, 1554, 2105, 5>>, <<709, 4, 2548, 2966, 2159, 5>>, <<2491, 2050, 568, 3390, 2211, 5>>,
      <<1066, 2563, 2758, 3213, 2264, 5>>, <<309, 1156, 376, 4017, 2318, 5>>, <<2241, 722, 2795, 1486, 2371, 5>>,
      <<753, 3975, 1445, 834, 2424, 5>>, <<4013, 1896, 3855, 1042, 2478, 5>>, <<2508, 2721, 3433, 3723, 2530, 5>>,
      <<63, 330, 3268, 2606, 2583, 5>>, <<2127, 412, 2037, 2234, 2637, 5>>, <<3378, 769, 2297, 1908, 2690, 5>>,
      <<1150, 1986, 2871, 337, 2743, 5>>, <<3486, 1458, 517, 3494, 2796, 5>>, <<3202, 1423, 3395, 135, 2850, 5>>,
      <<2979, 755, 3220, 2217, 2902, 5>>, <<2700, 944, 953, 724, 2956, 5>>, <<1687, 3150, 2643, 2500, 3009, 5>>,
      <<61, 2914, 3304, 53, 3062, 5>>, <<2125, 3642, 1058, 2115, 3115, 5>>, <<2352, 3300, 149, 810, 3169, 5>>,
      <<2940, 1053, 2235, 2036, 3221, 5>>, <<603, 293, 2794, 3569, 3274, 5>>, <<889, 1207, 210, 3255, 3328, 5>>,
      <<87, 3557, 3334, 4068, 3380, 5>>, <<1133, 2398, 72, 990, 3434, 5>>, <<3780, 1498, 3117, 1642, 3488, 5>>,
      <<2677, 2897, 1848, 2053, 3540, 5>>, <<274, 3622, 3334, 2566, 3593, 5>>, <<3243, 1239, 1060, 68, 3648, 5>>,
      <<3030, 1549, 1325, 85, 3700, 5>>, <<716, 2961, 2680, 106, 3753, 5>>, <<1919, 3701, 1302, 1157, 3807, 5>>,
      <<1711, 1289, 1326, 2259, 3859, 5>>, <<3163, 3659, 633, 1800, 3912, 5>>, <<2930, 1502, 792, 2250, 3966, 5>>,
      <<807, 939, 1519, 382, 4019, 5>>, <<4081, 149, 3947, 3549, 4071, 5>>, <<2029, 3259, 1861, 3413, 29, 6>>,
      <<756, 2549, 1675, 2645, 82, 6>>, <<1969, 2162, 3118, 1258, 135, 6>>, <<413, 655, 1850, 549, 189, 6>>,
      <<1794, 1433, 1668, 855, 242, 6>>, <<3267, 1791, 1061, 3117, 294, 6>>, <<3060, 3263, 2350, 1848, 348, 6>>,
      <<3448, 1015, 1469, 3203, 401, 6>>, <<3286, 2293, 812, 932, 454, 6>>, <<1036, 2867, 1015, 3213, 507, 6>>,
      <<135, 3328, 1146, 1496, 561, 6>>, <<169, 2112, 1433, 2894, 613, 6>>, <<212, 3664, 3839, 545, 667, 6>>,
      <<132, 3826, 863, 3925, 720, 6>>, <<2213, 3758, 2103, 810, 773, 6>>, <<719, 3674, 581, 2037, 826, 6>>,
      <<1473, 2808, 875, 2297, 880, 6>>, <<1842, 2486, 2118, 2871, 932, 6>>, <<254, 1060, 1624, 3589, 985, 6>>,
      <<2207, 662, 1527, 707, 1040, 6>>, <<710, 3900, 884, 884, 1092, 6>>, <<888, 779, 1106, 1105, 1145, 6>>,
      <<86, 3022, 2406, 2405, 1199, 6>>, <<3126, 864, 2016, 3039, 1251, 6>>, <<3907, 1080, 1496, 2775, 1304, 6>>,
      <<788, 1351, 846, 3469, 1358, 6>>, <<2028, 3916, 1040, 1144, 1411, 6>>, <<2536, 799, 1301, 406, 1464, 6>>,
      <<2145, 2023, 3674, 507, 1518, 6>>, <<2877, 2288, 1784, 3389, 1570, 6>>, <<3596, 2860, 3254, 2188, 1623, 6>>,
      <<399, 1528, 4068, 1711, 1677, 6>>, <<249, 3003, 4078, 1581, 1730, 6>>, <<3384, 1705, 2026, 4025, 1782, 6>>,
      <<1158, 84, 3557, 2983, 1836, 6>>, <<2772, 564, 3759, 3912, 1889, 6>>, <<3465, 3777, 602, 1819, 1942, 6>>,
      <<1259, 2674, 3825, 225, 1996, 6>>, <<1811, 135, 855, 2189, 2049, 6>>, <<1239, 3241, 2092, 3760, 2101, 6>>,
      <<2573, 4051, 2615, 1628, 2155, 6>>, <<1096, 4068, 3682, 505, 2209, 6>>, <<1370, 3037, 1531, 1656, 2261, 6>>,
      <<2737, 2772, 1914, 3094, 2314, 6>>, <<3759, 2756, 172, 2958, 2368, 6>>, <<602, 3446, 2263, 3697, 2420, 6>>,
      <<2801, 3283, 3853, 525, 2474, 6>>, <<1238, 2564, 2920, 1352, 2528, 6>>, <<1548, 3205, 3650, 1690, 2580, 6>>,
      <<2959, 1958, 2515, 2113, 2633, 6>>, <<1651, 1424, 72, 3666, 2687, 6>>, <<1032, 890, 1069, 3827, 2739, 6>>,
      <<3338, 2136, 312, 3760, 2792, 6>>, <<76, 2671, 390, 604, 2847, 6>>, <<1584, 645, 2292, 1913, 2899, 6>>,
      <<3003, 806, 3889, 1367, 2952, 6>>, <<1706, 2032, 3837, 1709, 3006, 6>>, <<1066, 1782, 2910, 44, 3059, 6>>,
      <<3381, 179, 3638, 3127, 3111, 6>>, <<3202, 2272, 3523, 2885, 3165, 6>>, <<2001, 908, 2714, 2315, 3218, 6>>,
      <<2502, 3183, 2368, 846, 3271, 6>>, <<2103, 3979, 912, 34, 3325, 6>>, <<803, 2487, 1594, 533, 3378, 6>>,
      <<4075, 1060, 3017, 2714, 3430, 6>>, <<998, 2350, 1723, 1345, 3484, 6>>, <<3696, 956, 3637, 2888, 3537, 6>>,
      <<524, 2220, 450, 539, 3590, 6>>, <<655, 727, 3635, 2721, 3643, 6>>, <<1945, 4038, 735, 1189, 3697, 6>>,
      <<383, 4024, 1943, 2510, 3749, 6>>, <<479, 4006, 381, 66, 3803, 6>>, <<3372, 3015, 1262, 3625, 3856, 6>>,
      <<3190, 1721, 2602, 435, 3909, 6>>, <<916, 104, 2229, 1568, 3962, 6>>, <<573, 577, 1393, 2004, 4016, 6>>,
      <<1740, 1745, 1741, 2505, 4068, 6>>, <<3199, 3205, 3200, 3131, 25, 7>>, <<2511, 2003, 1488, 421, 80, 7>>,
      <<2115, 2504, 2884, 526, 132, 7>>, <<2644, 3130, 1557, 658, 185, 7>>, <<1257, 841, 3995, 1846, 239, 7>>,
      <<3345, 13, 1473, 2690, 291, 7>>, <<1110, 1041, 3889, 2338, 344, 7>>, <<2411, 2325, 2813, 2923, 398, 7>>,
      <<2019, 1965, 1246, 803, 451, 7>>, <<3548, 408, 534, 4076, 503, 7>>, <<339, 2559, 667, 4071, 557, 7>>,
      <<1748, 1087, 1953, 3056, 610, 7>>, <<1161, 2383, 2441, 1772, 663, 7>>, <<427, 4003, 3051, 1191, 717, 7>>,
      <<3851, 1989, 3443, 1256, 770, 7>>, <<1741, 1463, 208, 3619, 822, 7>>, <<1153, 1829, 3332, 2475, 876, 7>>,
      <<1232, 3191, 1570, 3595, 929, 7>>, <<516, 1941, 939, 1422, 982, 7>>, <<1670, 1402, 3222, 3825, 1035, 7>>,
      <<2068, 3948, 477, 1879, 1089, 7>>, <<2584, 1863, 3669, 3372, 1141, 7>>, <<2206, 3353, 490, 1144, 1195, 7>>,
      <<3939, 3119, 306, 203, 1249, 7>>, <<3900, 1851, 3455, 1277, 1301, 7>>, <<3851, 1290, 1247, 2621, 1354, 7>>,
      <<3431, 2342, 1291, 2662, 1408, 7>>, <<2240, 1904, 3662, 3327, 1460, 7>>, <<2801, 332, 3554, 63, 1514, 7>>,
      <<3798, 1231, 3757, 1063, 1568, 7>>, <<3724, 2563, 3672, 1329, 1620, 7>>, <<3631, 3204, 1518, 1662, 1673, 7>>,
      <<443, 1958, 3946, 3101, 1727, 7>>, <<3349, 2247, 2978, 3474, 1779, 7>>, <<3162, 761, 1675, 3319, 1832, 7>>,
      <<880, 4024, 1069, 53, 1887, 7>>, <<550, 3027, 1180, 1569, 1939, 7>>, <<3760, 3783, 2499, 937, 1992, 7>>,
      <<3676, 3705, 52, 1172, 2046, 7>>, <<761, 268, 2081, 3804, 2098, 7>>, <<952, 1359, 2601, 2707, 2151, 7>>,
      <<165, 2723, 2227, 2360, 2205, 7>>, <<3687, 1189, 1392, 1987, 2258, 7>>, <<1537, 1487, 716, 436, 2311, 7>>,
      <<898, 1859, 895, 3617, 2364, 7>>, <<49, 2698, 3119, 212, 2418, 7>>, <<2109, 2348, 3899, 2313, 2470, 7>>,
      <<2637, 1911, 1802, 844, 2524, 7>>, <<3184, 2218, 3174, 2575, 2577, 7>>, <<1932, 725, 2944, 147, 2630, 7>>,
      <<3439, 906, 2656, 2232, 2683, 7>>, <<3173, 566, 1660, 883, 2737, 7>>, <<1919, 708, 1051, 2128, 2789, 7>>,
      <<2398, 3957, 1313, 3684, 2842, 7>>, <<2011, 937, 2869, 3326, 2896, 7>>, <<3538, 2195, 1538, 62, 2949, 7>>,
      <<3398, 696, 3971, 1101, 3002, 7>>, <<2124, 4019, 2993, 1712, 3056, 7>>, <<1631, 1952, 3742, 2140, 3108, 7>>,
      <<2038, 392, 582, 2676, 3161, 7>>, <<1274, 3317, 2411, 136, 3216, 7>>, <<2616, 3122, 3014, 170, 3268, 7>>,
      <<1223, 1855, 1720, 213, 3321, 7>>, <<504, 2319, 3174, 1290, 3375, 7>>, <<1851, 425, 3008, 2342, 3427, 7>>,
      <<3338, 531, 1712, 1904, 3480, 7>>, <<3148, 664, 2140, 2380, 3534, 7>>, <<1968, 2463, 3385, 463, 3587, 7>>,
      <<1436, 7, 3208, 3651, 3639, 7>>, <<771, 9, 2986, 3540, 3693, 7>>, <<3042, 1029, 3914, 2724, 3746, 7>>,
      <<730, 3335, 796, 1358, 3799, 7>>, <<3984, 72, 3044, 673, 3853, 7>>, <<2490, 2093, 366, 933, 3906, 7>>,
      <<41, 569, 1482, 3214, 3958, 7>>, <<1075, 2759, 3900, 1969, 4012, 7>>, <<2208, 3772, 901, 3279, 4065, 7>>>>

\* The sixteen hexadecimal digits of an f64.
Hex(n) == SubSeq("0123456789abcdef", n + 1, n + 1)
Hex3(n) == Hex(n \div 256) \o Hex((n \div 16) % 16) \o Hex(n % 16)
Bits(neg, x) ==
    Hex((IF neg THEN 8 ELSE 0) + (IF Len(x) >= 6 THEN x[6] ELSE 0))
    \o Hex3(IF Len(x) >= 5 THEN x[5] ELSE 0)
    \o Hex3(IF Len(x) >= 4 THEN x[4] ELSE 0)
    \o Hex3(IF Len(x) >= 3 THEN x[3] ELSE 0)
    \o Hex3(IF Len(x) >= 2 THEN x[2] ELSE 0)
    \o Hex3(IF Len(x) >= 1 THEN x[1] ELSE 0)

\* A number below 2^31 in base 4096.
Limbs(v) == Trim(<<v % 4096, (v \div 4096) % 4096, v \div 16777216>>)

\* The number that at most 21 digits write, seven digits at a time.
Sevens(ds) ==
    Add(Mul(Add(Mul(Limbs(DigitsValue(SubSeq(ds, 1, Len(ds) - 14))), Limbs(10000000)),
                Limbs(DigitsValue(SubSeq(ds, IF Len(ds) > 14 THEN Len(ds) - 13 ELSE 1,
                                         Len(ds) - 7)))),
            Limbs(10000000)),
        Limbs(DigitsValue(SubSeq(ds, IF Len(ds) > 7 THEN Len(ds) - 6 ELSE 1, Len(ds)))))

\* The number that the digits ds write, a u64.
NatOf(ds) == Sevens(StripLeading(ds))

\* significand as f64: the f64 nearest to a u64.
AsF64(n) == IF n = <<>> THEN <<>> ELSE RoundF64(n, <<1>>, 0)

\* The loop of f64_from_parts: f times 10^exponent, by one multiplication
\* or division by POW10[|exponent|] when the table has it (up to 308), by
\* divisions by 1e308 until it has or f is zero; a positive exponent the
\* table has not is out of range, and so is an infinite product.  Turned
\* is what follows the multiplication or division of one turn.
RECURSIVE Scaled(_, _)
Turned(f, exponent) ==
    IF exponent < 0 - 308 THEN Scaled(f, exponent + 308)
    ELSE IF exponent >= 0 /\ f = Infinity THEN Err("NumberOutOfRange")
    ELSE Ok(f)

Scaled(f, exponent) ==
    IF (exponent > 308 \/ exponent < 0 - 308) /\ f = <<>> THEN Ok(f)
    ELSE IF exponent > 308 THEN Err("NumberOutOfRange")
    ELSE Turned(F64Scale(f,
                         POW10[(IF exponent < 0 - 308 THEN 308
                                ELSE IF exponent < 0 THEN 0 - exponent
                                ELSE exponent) + 1],
                         exponent >= 0),
                exponent)

\* The number with its sign (Ok(if positive { f } else { -f })).
Signed(neg, f, next) ==
    IF f.tag = "Err" THEN ParseFailed ELSE Parsed(JFloat(Bits(neg, f.v)), next)

\* f64_from_parts: the f64 of the significand that ds writes, scaled, with
\* its sign.
f64_from_parts(neg, ds, exponent, next) ==
    Signed(neg, Scaled(AsF64(NatOf(ds)), exponent), next)

\* parse_exponent: the exponent that is written is added to start or taken
\* from it (saturating_add, saturating_sub of i32); one past i32::MAX
\* (2147483647) is out of range, or a zero when the significand is zero or
\* the exponent negative (parse_exponent_overflow).
parse_exponent(neg, ds, start, exp, next) ==
    IF exp.written /\ ~AtMost(exp.digits, <<2, 1, 4, 7, 4, 8, 3, 6, 4, 7>>)
    THEN (IF StripLeading(ds) # <<>> /\ exp.positive THEN ParseFailed
          ELSE Parsed(JFloat(Bits(neg, <<>>)), next))
    ELSE f64_from_parts(neg, ds,
             IF ~exp.written THEN start
             ELSE IF exp.positive
             THEN (IF start > 0 /\ DigitsValue(StripLeading(exp.digits)) > 2147483647 - start
                   THEN 2147483647
                   ELSE start + DigitsValue(StripLeading(exp.digits)))
             ELSE (IF start < 0 /\ DigitsValue(StripLeading(exp.digits)) > (2147483647 + start) + 1
                   THEN (0 - 2147483647) - 1
                   ELSE start - DigitsValue(StripLeading(exp.digits))),
             next)

\* parse_decimal: the significand goes on with the digits of the fraction,
\* each one lowering the exponent, up to the first one that would take it
\* past u64::MAX; the digits from that one on are ignored.
parse_decimal(neg, ds, start, frac, exp, next) ==
    parse_exponent(neg, ds \o SubSeq(frac, 1, Taken(ds, frac)),
                   start - Taken(ds, frac), exp, next)

\* parse_integer for a number that is no integer of 64 bits: the digits
\* of the integer part make the significand up to the first one that would
\* take it past u64::MAX; that one and each later one raise the exponent
\* (parse_long_integer).
parse_long_integer(neg, int, frac, exp, next) ==
    parse_decimal(neg, SubSeq(int, 1, Taken(<<>>, int)),
                  Len(int) - Taken(<<>>, int), frac, exp, next)

\* parse_number for an integer of at most 64 bits: u64, i64 when negative
\* (down to -9223372036854775808), the f64 when it is negative and below
\* that, or -0.
IntegerValue(neg, ds, next) ==
    IF ~neg
    THEN Parsed(IF Len(ds) <= 9 THEN JNum(DigitsValue(ds)) ELSE JInt(FALSE, ds), next)
    ELSE IF ds # <<0>> /\ AtMost(ds, <<9, 2, 2, 3, 3, 7, 2, 0, 3, 6, 8, 5, 4, 7, 7, 5, 8, 0, 8>>)
    THEN Parsed(IF Len(ds) <= 9 THEN JNum(0 - DigitsValue(ds)) ELSE JInt(TRUE, ds), next)
    ELSE Parsed(JFloat(Bits(TRUE, AsF64(NatOf(ds)))), next)

\* The value of a number: i is its first character, d its first digit,
\* int_end, frac_end and exp_end the positions after its integer part, its
\* fraction and its exponent, exp_digits its first exponent digit (frac_end
\* when it has no exponent).
NumberValue(s, i, d, int_end, frac_end, exp_digits, exp_end) ==
    IF int_end = d THEN ParseFailed
    ELSE IF frac_end = int_end + 1 THEN ParseFailed
    ELSE IF exp_digits # frac_end /\ exp_end = exp_digits THEN ParseFailed
    ELSE IF /\ frac_end = int_end
            /\ exp_digits = frac_end
            /\ Taken(<<>>, DigitsOf(s, d, int_end - 1)) = int_end - d
         THEN IntegerValue(d # i, DigitsOf(s, d, int_end - 1), int_end)
    ELSE parse_long_integer(d # i, DigitsOf(s, d, int_end - 1),
                            DigitsOf(s, int_end + 1, frac_end - 1),
                            [written |-> exp_digits # frac_end,
                             positive |-> exp_digits = frac_end \/ s[frac_end + 1] # 45,
                             digits |-> DigitsOf(s, exp_digits, exp_end - 1)],
                            exp_end)

NumberExponent(s, i, d, int_end, frac_end, exp_digits) ==
    NumberValue(s, i, d, int_end, frac_end, exp_digits,
                IF exp_digits = frac_end THEN frac_end
                ELSE SkipWhile(s, exp_digits, 48..57))

NumberFraction(s, i, d, int_end, frac_end) ==
    NumberExponent(s, i, d, int_end, frac_end,
                   IF ~HasChar(s, frac_end, {69, 101}) THEN frac_end
                   ELSE IF HasChar(s, frac_end + 1, {43, 45}) THEN frac_end + 2
                   ELSE frac_end + 1)

NumberInteger(s, i, d, int_end) ==
    NumberFraction(s, i, d, int_end,
                   IF HasChar(s, int_end, {46}) THEN SkipWhile(s, int_end + 1, 48..57)
                   ELSE int_end)

\* A number that starts at i: "-"? int frac? exp?
ParseNumber(s, i) ==
    NumberInteger(s, i, IF s[i] = 45 THEN i + 1 ELSE i,
                  IF HasChar(s, IF s[i] = 45 THEN i + 1 ELSE i, {48})
                  THEN (IF s[i] = 45 THEN i + 1 ELSE i) + 1
                  ELSE SkipWhile(s, IF s[i] = 45 THEN i + 1 ELSE i, 48..57))

IsWord(s, i, word) ==
    /\ i + Len(word) - 1 <= Len(s)
    /\ SubSeq(s, i, i + Len(word) - 1) = word

\* The arrays and objects that may be open at once, plus one.
RecursionLimit == 128

RECURSIVE ParseValue(_, _, _)
RECURSIVE ParseElements(_, _, _, _)
RECURSIVE ParseMembers(_, _, _, _)

\* After the element item of an array: a comma and the next element, or the
\* end of the array.
ElementValue(s, item, acc, depth) ==
    IF ~item.ok THEN ParseFailed
    ELSE IF HasChar(s, SkipWhitespace(s, item.next), {44})
         THEN ParseElements(s, SkipWhitespace(s, item.next) + 1,
                            Append(acc, item.v), depth)
    ELSE IF HasChar(s, SkipWhitespace(s, item.next), {93})
         THEN Parsed(JArr(Append(acc, item.v)), SkipWhitespace(s, item.next) + 1)
    ELSE ParseFailed

\* The elements of an array from position i (a value is due), acc being the
\* elements read so far.
ParseElements(s, i, acc, depth) ==
    ElementValue(s, ParseValue(s, SkipWhitespace(s, i), depth), acc, depth)

\* After a member of an object, at position j: a comma and the next member,
\* or the end of the object.
MemberEnd(s, j, members, depth) ==
    IF j > Len(s) THEN ParseFailed
    ELSE IF s[j] = 44 THEN ParseMembers(s, j + 1, members, depth)
    ELSE IF s[j] = 125 THEN Parsed(JObj(members), j + 1)
    ELSE ParseFailed

\* A key that comes twice keeps its last value.
MemberValue(s, name, item, acc, depth) ==
    IF ~item.ok THEN ParseFailed
    ELSE MemberEnd(s, SkipWhitespace(s, item.next),
                   [n \in DOMAIN acc \cup {name} |->
                       IF n = name THEN item.v ELSE acc[n]],
                   depth)

\* After the key of a member: a colon and the value.
MemberName(s, key, acc, depth) ==
    IF ~key.ok THEN ParseFailed
    ELSE IF ~HasChar(s, SkipWhitespace(s, key.next), {58}) THEN ParseFailed
    ELSE MemberValue(s, key.v,
                     ParseValue(s, SkipWhitespace(s, SkipWhitespace(s, key.next) + 1),
                                depth),
                     acc, depth)

\* The members of an object from position i (a key is due), acc being the
\* members read so far.
ParseMembers(s, i, acc, depth) ==
    IF ~HasChar(s, SkipWhitespace(s, i), {34}) THEN ParseFailed
    ELSE MemberName(s, ParseStringFrom(s, SkipWhitespace(s, i) + 1, <<>>), acc, depth)

\* The value that starts at position i, depth being the arrays and objects
\* that may still be opened, plus one.
ParseValue(s, i, depth) ==
    IF i > Len(s) THEN ParseFailed
    ELSE IF s[i] \in {123, 91} /\ depth = 1 THEN ParseFailed
    ELSE IF s[i] = 123
         THEN IF HasChar(s, SkipWhitespace(s, i + 1), {125})
              THEN Parsed(JObj(<<>>), SkipWhitespace(s, i + 1) + 1)
              ELSE ParseMembers(s, i + 1, <<>>, depth - 1)
    ELSE IF s[i] = 91
         THEN IF HasChar(s, SkipWhitespace(s, i + 1), {93})
              THEN Parsed(JArr(<<>>), SkipWhitespace(s, i + 1) + 1)
              ELSE ParseElements(s, i + 1, <<>>, depth - 1)
    ELSE IF s[i] = 34
         THEN LET text == ParseStringFrom(s, i + 1, <<>>)
              IN IF text.ok THEN Parsed(JStr(text.v), text.next) ELSE ParseFailed
    ELSE IF s[i] \in {45} \cup (48..57) THEN ParseNumber(s, i)
    ELSE IF IsWord(s, i, <<116, 114, 117, 101>>) THEN Parsed(JBool(TRUE), i + 4)
    ELSE IF IsWord(s, i, <<102, 97, 108, 115, 101>>) THEN Parsed(JBool(FALSE), i + 5)
    ELSE IF IsWord(s, i, <<110, 117, 108, 108>>) THEN Parsed(JNull, i + 4)
    ELSE ParseFailed

\* serde_json::de::from_str: one value, with whitespace around it and
\* nothing else after it.
SerdeFromStr(source) ==
    LET value == ParseValue(source, SkipWhitespace(source, 1), RecursionLimit)
    IN IF value.ok /\ SkipWhitespace(source, value.next) > Len(source)
       THEN Ok(value.v)
       ELSE Err("json")

\* ParseError::json(err), and the type errors of the decoders
ParseErrorJson == [tag |-> "ParseError", kind |-> "json"]
ParseErrorType(at) == [tag |-> "ParseError", kind |-> "type", at |-> at]
ParseErrorMissing(at) == [tag |-> "ParseError", kind |-> "missing", at |-> at]

\* ServiceSelector::new() / ChannelSelector::new(): no constraint.
SelectorNew == [id |-> default]

\* ChannelSelector::with_id: the id constraint is combined with Exactly(id).
with_id(selector, id) == [selector EXCEPT !.id = and(selector.id, Exactly(id))]

\* A selector from its JSON object.
SelectorOfJson(j) ==
    IF CodePoints("id") \in DOMAIN j.v
    THEN with_id(SelectorNew, j.v[CodePoints("id")].v)
    ELSE SelectorNew

IsSelectorArray(j) ==
    /\ j.tag = "array"
    /\ \A i \in 1..Len(j.v) : j.v[i].tag = "object"

\* Vec::<Selector>::parse on a JSON document
VecSelectorParse(at, j) ==
    IF IsSelectorArray(j)
    THEN Ok([i \in 1..Len(j.v) |-> SelectorOfJson(j.v[i])])
    ELSE Err(ParseErrorType(at))

\* from_str_at, once the text went through serde_json: the error of the
\* JSON, or the document decoded.
VecSelectorFromJson(j) ==
    IF j.tag = "Err" THEN Err(ParseErrorJson) ELSE VecSelectorParse("body", j.v)

\* Vec::<Selector>::from_str_at(path, source)
VecSelectorFromStr(source) == VecSelectorFromJson(SerdeFromStr(source))

\* The values a payload carries (values::Binary, values::Json).
Binary(mimetype, data) == [tag |-> "Binary", mimetype |-> mimetype, data |-> data]
Json(json) == [tag |-> "Json", json |-> json]

\* io::Payload: the tag of its format with the document of a structured
\* value, or with the mimetype and the raw bytes of a binary one.
StructuredPayload(json) == [format |-> "json", json |-> json]
BinaryPayload(mimetype, bytes) ==
    [format |-> "binary", raw |-> TRUE, mimetype |-> mimetype, bytes |-> bytes]
\* a payload that calls itself binary and holds no values::Binary
Mislabelled == [format |-> "binary", raw |-> FALSE]

\* Payload::from_value(&Value, &format): the value encoded in the format, a
\* type error when the value is not of the type of the format.
PayloadFromValue(value, format) ==
    IF format = "json" /\ value.tag = "Json"
    THEN Ok(StructuredPayload(value.json))
    ELSE IF format = "binary" /\ value.tag = "Binary"
    THEN Ok(BinaryPayload(value.mimetype, value.data))
    ELSE Err("TypeError")

\* payload.to_value(&format): the payload decoded in the format, a type
\* error when the payload is not of that format.
PayloadToValue(payload, format) ==
    IF payload.format # format THEN Err("TypeError")
    ELSE IF format = "json" THEN Ok(Json(payload.json))
    ELSE IF payload.raw THEN Ok(Binary(payload.mimetype, payload.bytes))
    ELSE Ok([tag |-> "Other"])

\* value.downcast::<Binary>()
DowncastBinary(value) == IF value.tag = "Binary" THEN Some(value) ELSE None

\* from_str_at of a TargetMap, once the text went through serde_json.
TargetMapFromJson(j) ==
    IF j.tag = "Err" THEN Err(ParseErrorJson)
    ELSE IF /\ j.v.tag = "array"
            /\ \A i \in 1..Len(j.v.v) :
                 /\ j.v.v[i].tag = "object"
                 /\ {CodePoints("select"), CodePoints("value")}
                       \subseteq DOMAIN j.v.v[i].v
    THEN Ok([i \in 1..Len(j.v.v) |->
               [select |-> <<SelectorOfJson(j.v.v[i].v[CodePoints("select")])>>,
                payload |-> StructuredPayload(j.v.v[i].v[CodePoints("value")])]])
    ELSE Err(ParseErrorType("body"))

\* TargetMap<ChannelSelectorWithFeature, Payload>::from_str_at
TargetMapFromStr(source) == TargetMapFromJson(SerdeFromStr(source))

\* Vec<Id<TagId>>::parse
IsTagArray(j) ==
    /\ j.tag = "array"
    /\ \A i \in 1..Len(j.v) : j.v[i].tag = "string"

\* Param::take(path, &json, name): the field of the JSON object, decoded.
Take(json, name) ==
    IF json.tag # "object" THEN Err(ParseErrorType("body"))
    ELSE IF CodePoints(name) \notin DOMAIN json.v THEN Err(ParseErrorMissing(name))
    ELSE IF name = "tags"
         THEN IF IsTagArray(json.v[CodePoints(name)])
              THEN Ok([i \in 1..Len(json.v[CodePoints(name)].v) |->
                         json.v[CodePoints(name)].v[i].v])
              ELSE Err(ParseErrorType(name))
         ELSE VecSelectorParse(name, json.v[CodePoints(name)])

(***************************************************************************)
(* The manager (AdapterManager) is outside the router: each operation      *)
(* returns any result of its type.                                         *)
(***************************************************************************)
FetchedPayloads ==
    { StructuredPayload(JNum(1)), Mislabelled,
      BinaryPayload(ImagePng, <<1, 2, 3>>), BinaryPayload("text/plain", <<>>),
      BinaryPayload(NotAMime, <<1, 2, 3>>) }

\* What the manager may answer: for fetch_values a map of
\* Result<Option<(Payload, Format)>, Error>, for send_values a map of
\* Result<(), Error>, for the listings a vector, for the tag operations a
\* map of Result<usize, Error>.
ManagerResults(op) ==
    CASE op = "fetch_values" ->
            UNION {[K -> {Err("NoSuchChannel"), Ok(None)}
                         \cup {Ok(Some(p)) : p \in FetchedPayloads}] :
                   K \in SUBSET ChannelIds}
      [] op = "send_values" ->
            UNION {[K -> {Ok([tag |-> "()"]), Err("NoSuchChannel")}] : K \in SUBSET ChannelIds}
      [] op \in {"get_services", "get_channels"} -> {<<>>, <<"x1">>}
      [] OTHER ->
            UNION {[K -> {Ok(1), Err("NoSuchChannel")}] :
                   K \in SUBSET {ChannelIdSeq[1]}}

ManagerOps ==
    {"get_services", "get_channels", "fetch_values", "send_values",
     "add_service_tags", "add_channel_tags",
     "remove_service_tags", "remove_channel_tags"}

(***************************************************************************)
(* TaxonomyRouter: the responses                                           *)
(***************************************************************************)
NoResponse == [tag |-> "no response"]
Panic == [tag |-> "panic"]
NoBody == [tag |-> "empty"]

Response(status, content_type, body) ==
    [tag |-> "response", status |-> status, content_type |-> content_type,
     body |-> body]

\* ContentType::json() and ContentType::plaintext()
ContentTypeJson == Mime("application", "json", <<>>)
ContentTypePlaintext == Mime("text", "plain", << <<"charset", "utf-8">> >>)

\* A plausible slip: the parameters of the mimetype are lost in the response.
build_binary_response_without_parameters(payload) ==
    LET mime == MimeParse(payload.mimetype)
    IN IF mime.tag = "Err" THEN Panic
       ELSE Response(200, Some(mime.v.top \o "/" \o mime.v.sub),
                     [tag |-> "bytes", v |-> payload.data])

\* build_binary_response: the mimetype is parsed as a Mime and unwrapped.
build_binary_response(payload) ==
    LET mime == MimeParse(payload.mimetype)
    IN IF mime.tag = "Err" THEN Panic
       ELSE Response(200, Some(MimeDisplay(mime.v)),
                     [tag |-> "bytes", v |-> payload.data])

\* build_response: the object serialized as JSON, status Ok.
build_response(obj) ==
    Response(200, Some(MimeDisplay(ContentTypeJson)), [tag |-> "json", v |-> obj])

\* build_parse_error: the serialized ParseError, status BadRequest.
build_parse_error(err) ==
    Response(400, Some(MimeDisplay(ContentTypePlaintext)), [tag |-> "json", v |-> err])

\* itry!(e) on an Err: the handler returns an IronError, answered with
\* Status::InternalServerError.
itry_failed == Response(500, None, NoBody)

\* itry!(e): the value of an Ok, the return of the handler on an Err.
itry(e) == IF e.tag = "Err" THEN Err(itry_failed) ELSE e

\* get_binary: the Binary of a result map with a single element that holds
\* a binary value.
get_binary(map) ==
    IF Cardinality(DOMAIN map) # 1 THEN None
    ELSE LET map_value == map[CHOOSE k \in DOMAIN map : TRUE]
         IN IF map_value.tag = "Ok" /\ map_value.v.tag = "Some"
            THEN LET data == PayloadToValue(map_value.v.v, "binary")
                 IN IF data.tag = "Ok"
                    THEN LET b == DowncastBinary(data.v)
                         IN IF b.tag = "Some"
                            THEN Some(Binary(b.v.mimetype, b.v.data))
                            ELSE None
                    ELSE None
            ELSE None

\* binary_response!, after the call: a raw body if get_binary finds one.
binary_response(res) ==
    LET payload == get_binary(res)
    IN IF payload.tag = "Some"
       THEN build_binary_response(payload.v)
       ELSE build_response(res)

\* simple_response!, after the call
simple_response(res) == build_response(res)

(***************************************************************************)
(* TaxonomyRouter::handle                                                  *)
(***************************************************************************)

\* A plausible slip: a token that fails the verification is taken for no token.
Identity_ignoring_failure(auth) ==
    IF auth.scheme = "Bearer"
    THEN LET token == SessionTokenFromString(auth.token)
         IN IF token.tag = "Ok" THEN Ok(UserId(token.v.claims.id)) ELSE Ok(UserNone)
    ELSE Ok(UserNone)

\* The identity of the caller, lines 114-123: Ok(user), or Err(the response
\* that ends the request).
Identity(auth) ==
    IF auth.scheme = "Bearer"
    THEN LET token == SessionTokenFromString(auth.token)
         IN IF token.tag = "Ok"
            THEN Ok(UserId(token.v.claims.id))
            ELSE Err(Response(401, None, NoBody))
    ELSE Ok(UserNone)

\* The rules of handle(), in the order of the source.
NumRules == 10

\* A plausible slip: the rule of PUT channel/:id also takes the paths under
\* channels.
RuleMatches_channels_too(i, method, path) ==
    CASE i = 1 -> method = "GET" /\ Len(path) = 2 /\ path[1] = "channel"
      [] i = 2 -> method = "PUT" /\ Len(path) = 2 /\ path[1] \in {"channel", "channels"}
      [] i = 3 -> path = <<"services">>
      [] i = 4 -> path = <<"channels">>
      [] i = 5 -> path = <<"channels", "get">> /\ method = "PUT"
      [] i = 6 -> path = <<"channels", "set">> /\ method = "PUT"
      [] i = 7 -> path = <<"services", "tags">> /\ method = "POST"
      [] i = 8 -> path = <<"channels", "tags">> /\ method = "POST"
      [] i = 9 -> path = <<"services", "tags">> /\ method = "DELETE"
      [] i = 10 -> path = <<"channels", "tags">> /\ method = "DELETE"

RuleMatches(i, method, path) ==
    CASE i = 1 -> method = "GET" /\ Len(path) = 2 /\ path[1] = "channel"
      [] i = 2 -> method = "PUT" /\ Len(path) = 2 /\ path[1] = "channel"
      [] i = 3 -> path = <<"services">>
      [] i = 4 -> path = <<"channels">>
      [] i = 5 -> path = <<"channels", "get">> /\ method = "PUT"
      [] i = 6 -> path = <<"channels", "set">> /\ method = "PUT"
      [] i = 7 -> path = <<"services", "tags">> /\ method = "POST"
      [] i = 8 -> path = <<"channels", "tags">> /\ method = "POST"
      [] i = 9 -> path = <<"services", "tags">> /\ method = "DELETE"
      [] i = 10 -> path = <<"channels", "tags">> /\ method = "DELETE"

\* The first rule that matches, 0 when none does (the fallthrough).
FirstMatch(method, path) ==
    IF \E i \in 1..NumRules : RuleMatches(i, method, path)
    THEN CHOOSE i \in 1..NumRules :
            /\ RuleMatches(i, method, path)
            /\ \A j \in 1..(i - 1) : ~RuleMatches(j, method, path)
    ELSE 0

\* A plausible slip: the tag rules of POST and DELETE bound the wrong way round.
RuleCall_tags_swapped(i) ==
    CASE i \in {1, 5} -> "fetch_values"
      [] i \in {2, 6} -> "send_values"
      [] i = 3 -> "get_services"
      [] i = 4 -> "get_channels"
      [] i = 7 -> "remove_service_tags"
      [] i = 8 -> "remove_channel_tags"
      [] i = 9 -> "add_service_tags"
      [] i = 10 -> "add_channel_tags"

\* The operation and the arguments of each rule.
RuleCall(i) ==
    CASE i \in {1, 5} -> "fetch_values"
      [] i \in {2, 6} -> "send_values"
      [] i = 3 -> "get_services"
      [] i = 4 -> "get_channels"
      [] i = 7 -> "add_service_tags"
      [] i = 8 -> "add_channel_tags"
      [] i = 9 -> "remove_service_tags"
      [] i = 10 -> "remove_channel_tags"

\* What a rule does before the manager is called: either it replies at once,
\* or it calls op with args and encodes the result with simple_response or
\* binary_response.  read: whether the body was read.
Reply(response, read) == [tag |-> "reply", resp |-> response, read |-> read]
CallPlan(op, args, usr, encoder, read) ==
    [tag |-> "call", op |-> op, args |-> args, user |-> usr,
     encoder |-> encoder, read |-> read]

NotPassed == [tag |-> "not passed"]

\* lines 161-164: the content type of a PUT channel/:id.  The typed header
\* (headers.get::<ContentType>()) is None when the header is absent or does
\* not parse as a Mime.
content_type(r) ==
    LET val == IF r.content_type.tag = "None" THEN Err("absent")
               ELSE MimeParse(r.content_type.v)
    IN IF val.tag = "Ok" THEN MimeDisplay(val.v) ELSE "application/octet-stream"

\* lines 169-174: the match on the result of serde_json, then the JSON
\* payload.
json_payload(json) ==
    IF json.tag = "Err"
    THEN Err(build_parse_error(ParseErrorJson))
    ELSE itry(PayloadFromValue(Json(json.v), "json"))

\* lines 176-183: the body read to its end, then the binary payload of the
\* buffer, its mimetype the content type.
binary_payload(mimetype, buffer) ==
    IF buffer.tag = "Err" THEN Err(itry_failed)
    ELSE itry(PayloadFromValue(Binary(mimetype, buffer.v), "binary"))

\* A plausible slip: the format is also guessed from the body, a body that
\* parses as JSON being sent as JSON whatever the content type.
put_payload_sniffing(r) ==
    LET source == read_body_to_string(r.body)
        sniffed == source.tag = "Ok" /\ SerdeFromStr(source.v).tag = "Ok"
    IN IF sniffed THEN json_payload(SerdeFromStr(source.v))
       ELSE IF starts_with(content_type(r), AppJson)
       THEN IF source.tag = "Err" THEN Err(itry_failed)
            ELSE Err(build_parse_error(ParseErrorJson))
       ELSE binary_payload(content_type(r), read_to_end(r.body))

\* lines 166-184: the payload of a PUT channel/:id, or the reply that ends
\* the request.
put_payload(r) ==
    IF starts_with(content_type(r), AppJson)
    THEN LET source == read_body_to_string(r.body)
         IN IF source.tag = "Err" THEN Err(itry_failed)
            ELSE json_payload(SerdeFromStr(source.v))
    ELSE binary_payload(content_type(r), read_to_end(r.body))

\* A plausible slip: the fetch is made as the anonymous user.
get_channel_id_anonymous(r, usr) ==
    LET id == CodePoints(r.path[2])
        selector == <<with_id(SelectorNew, id)>>
    IN CallPlan("fetch_values", <<selector>>, UserNone, "binary", FALSE)

\* lines 147-152: GET channel/:id
get_channel_id(r, usr) ==
    LET id == CodePoints(r.path[2])
        selector == <<with_id(SelectorNew, id)>>
    IN CallPlan("fetch_values", <<selector>>, usr, "binary", FALSE)

\* lines 185-189: the payload is sent to the channel of the path, unless
\* building it ended the request.
send_payload(r, usr, payload) ==
    LET id == CodePoints(r.path[2])
        selector == <<with_id(SelectorNew, id)>>
    IN IF payload.tag = "Err" THEN Reply(payload.e, TRUE)
       ELSE CallPlan("send_values",
                     << <<[payload |-> payload.v, select |-> selector]>> >>,
                     usr, "simple", TRUE)

\* lines 156-190: PUT channel/:id
put_channel_id(r, usr) == send_payload(r, usr, put_payload(r))

\* A plausible slip: any method other than POST is served like GET.
get_post_api_any_method(i, r) ==
    IF r.method = "POST"
    THEN LET source == read_body_to_string(r.body)
         IN IF source.tag = "Err" THEN Reply(itry_failed, TRUE)
            ELSE LET arg == VecSelectorFromStr(source.v)
                 IN IF arg.tag = "Ok"
                    THEN CallPlan(RuleCall(i), <<arg.v>>, NotPassed, "simple", TRUE)
                    ELSE Reply(build_parse_error(arg.e), TRUE)
    ELSE CallPlan(RuleCall(i), << <<SelectorNew>> >>, NotPassed, "simple", FALSE)

\* The match on the result of from_str_at in get_post_api! and
\* payload_api!: the call with the decoded argument, or the parse error.
decoded_call(op, arg, usr, encoder) ==
    IF arg.tag = "Ok"
    THEN CallPlan(op, <<arg.v>>, usr, encoder, TRUE)
    ELSE Reply(build_parse_error(arg.e), TRUE)

\* get_post_api!: lines 197-221
get_post_api(i, r) ==
    CASE r.method = "GET" ->
            CallPlan(RuleCall(i), << <<SelectorNew>> >>, NotPassed, "simple", FALSE)
      [] r.method = "POST" ->
            LET source == read_body_to_string(r.body)
            IN IF source.tag = "Err" THEN Reply(itry_failed, TRUE)
               ELSE decoded_call(RuleCall(i), VecSelectorFromStr(source.v),
                                 NotPassed, "simple")
      [] OTHER ->
            Reply(Response(405, None, [tag |-> "text", v |-> <<"Bad method: ", r.method>>]),
                  FALSE)

\* payload_api!: lines 224-242
payload_api(i, r, usr) ==
    LET source == read_body_to_string(r.body)
    IN IF source.tag = "Err" THEN Reply(itry_failed, TRUE)
       ELSE decoded_call(RuleCall(i),
                         IF i = 5 THEN VecSelectorFromStr(source.v)
                         ELSE TargetMapFromStr(source.v),
                         usr, IF i = 5 THEN "binary" ELSE "simple")

\* payload_api2!, lines 258-269: the two arguments are taken from the JSON
\* in turn, then the call is made.
call_with_two(i, arg_1, arg_2) ==
    IF arg_1.tag = "Err" THEN Reply(build_parse_error(arg_1.e), TRUE)
    ELSE IF arg_2.tag = "Err" THEN Reply(build_parse_error(arg_2.e), TRUE)
    ELSE CallPlan(RuleCall(i), <<arg_1.v, arg_2.v>>, NotPassed, "simple", TRUE)

\* payload_api2!, lines 252-257: the match on the result of serde_json.
take_arguments(i, json) ==
    IF json.tag = "Err" THEN Reply(build_parse_error(ParseErrorJson), TRUE)
    ELSE call_with_two(i, Take(json.v, IF i \in {7, 9} THEN "services" ELSE "channels"), Take(json.v, "tags"))

\* payload_api2!: lines 246-271
payload_api2(i, r) ==
    LET source == read_body_to_string(r.body)
    IN IF source.tag = "Err" THEN Reply(itry_failed, TRUE)
       ELSE take_arguments(i, SerdeFromStr(source.v))

\* lines 305-306: the fallthrough
fallthrough(r) ==
    Reply(Response(404, None, [tag |-> "text", v |-> <<"Unknown url: ", r.path>>]),
          FALSE)

\* What rule i does with request r.
Plan(i, r, usr) ==
    CASE i = 0 -> fallthrough(r)
      [] i = 1 -> get_channel_id(r, usr)
      [] i = 2 -> put_channel_id(r, usr)
      [] i \in {3, 4} -> get_post_api(i, r)
      [] i \in {5, 6} -> payload_api(i, r, usr)
      [] OTHER -> payload_api2(i, r)

Encode(encoder, res) ==
    IF encoder = "binary" THEN binary_response(res) ELSE simple_response(res)

(***************************************************************************)
(* create(): the list of the endpoints of the router, each a list of       *)
(* methods and a path ("a/b" is written <<"a", "b">>).                     *)
(***************************************************************************)
\* A plausible slip: an entry of the list forgotten.
endpoints_without_set ==
    << [methods |-> {"GET", "POST"}, path |-> <<"services">>],
       [methods |-> {"POST", "DELETE"}, path |-> <<"services", "tags">>],
       [methods |-> {"GET", "POST"}, path |-> <<"channels">>],
       [methods |-> {"PUT"}, path |-> <<"channels", "get">>],
       [methods |-> {"POST", "DELETE"}, path |-> <<"channels", "tags">>],
       [methods |-> {"GET", "PUT"}, path |-> <<"channel", ":id">>] >>

endpoints ==
    << [methods |-> {"GET", "POST"}, path |-> <<"services">>],
       [methods |-> {"POST", "DELETE"}, path |-> <<"services", "tags">>],
       [methods |-> {"GET", "POST"}, path |-> <<"channels">>],
       [methods |-> {"PUT"}, path |-> <<"channels", "get">>],
       [methods |-> {"PUT"}, path |-> <<"channels", "set">>],
       [methods |-> {"POST", "DELETE"}, path |-> <<"channels", "tags">>],
       [methods |-> {"GET", "PUT"}, path |-> <<"channel", ":id">>] >>

\* A path is of a pattern when it has its segments, ":id" standing for any
\* one segment.
EndpointMatches(pattern, path) ==
    /\ Len(pattern) = Len(path)
    /\ \A k \in 1..Len(pattern) : pattern[k] = ":id" \/ pattern[k] = path[k]

InEndpoints(method, path) ==
    \E k \in 1..Len(endpoints) :
        /\ method \in endpoints[k].methods
        /\ EndpointMatches(endpoints[k].path, path)

(***************************************************************************)
(* The handler as a state machine: one request at a time is received,      *)
(* given an identity, dispatched to the first rule that matches, answered. *)
(***************************************************************************)
NoUser == [tag |-> "not derived"]

RtIdle ==
    /\ pc = "idle"
    /\ req = NoRequest
    /\ user = NoUser
    /\ derived = 0
    /\ body_read = FALSE
    /\ rule = -1
    /\ calls = <<>>
    /\ resp = NoResponse
    /\ nresp = 0

\* A request arrives.
Receive ==
    /\ pc = "idle"
    /\ req' \in Requests
    /\ pc' = "identity"
    /\ user' = NoUser
    /\ derived' = 0
    /\ body_read' = FALSE
    /\ rule' = -1
    /\ calls' = <<>>
    /\ resp' = NoResponse
    /\ nresp' = 0
    /\ UNCHANGED exvars

\* lines 114-123
ExtractIdentity ==
    /\ pc = "identity"
    /\ derived' = derived + 1
    /\ LET id == Identity(req.auth)
       IN IF id.tag = "Ok"
          THEN /\ user' = id.v
               /\ pc' = "dispatch"
               /\ UNCHANGED <<resp, nresp>>
          ELSE /\ resp' = id.e
               /\ nresp' = nresp + 1
               /\ pc' = "done"
               /\ UNCHANGED user
    /\ UNCHANGED <<req, body_read, rule, calls>>
    /\ UNCHANGED exvars

\* The end of handle(): the response is returned, or the thread panicked.
Finish(i, response, newcalls, read) ==
    /\ rule' = i
    /\ calls' = calls \o newcalls
    /\ body_read' = read
    /\ IF response = Panic
       THEN pc' = "panicked" /\ UNCHANGED <<resp, nresp>>
       ELSE pc' = "done" /\ resp' = response /\ nresp' = nresp + 1
    /\ UNCHANGED <<req, user, derived>>
    /\ UNCHANGED exvars

\* The plan of rule i is carried out: the reply, or one call of the manager
\* and its result encoded.
Carry(i, plan) ==
    IF plan.tag = "reply"
    THEN Finish(i, plan.resp, <<>>, plan.read)
    ELSE \E res \in ManagerResults(plan.op) :
            Finish(i, Encode(plan.encoder, res),
                   <<[op |-> plan.op, args |-> plan.args, user |-> plan.user,
                      result |-> res]>>,
                   plan.read)

\* Rule i runs: it replies, or it calls the manager once and encodes the result.
Run(i) == Carry(i, Plan(i, req, user))

\* The request is over: nothing of it is kept (the router holds no state of
\* its own), and the next one can arrive.
Forget ==
    /\ pc \in {"done", "panicked"}
    /\ pc' = "idle"
    /\ req' = NoRequest
    /\ user' = NoUser
    /\ derived' = 0
    /\ body_read' = FALSE
    /\ rule' = -1
    /\ calls' = <<>>
    /\ resp' = NoResponse
    /\ nresp' = 0
    /\ UNCHANGED exvars

Matched(i) == pc = "dispatch" /\ FirstMatch(req.method, req.path) = i

GetChannelId == Matched(1) /\ Run(1)

PutChannelId == Matched(2) /\ Run(2)

GetPostApi == \E i \in {3, 4} : Matched(i) /\ Run(i)

PayloadApi == \E i \in {5, 6} : Matched(i) /\ Run(i)

PayloadApi2 == \E i \in 7..NumRules : Matched(i) /\ Run(i)

Fallthrough == Matched(0) /\ Run(0)

(***************************************************************************)
(* Binary values on their way in and out: PUT channel/:id builds a payload *)
(* from the body and the content type and sends it, GET channel/:id        *)
(* answers with the value of a fetch.  The manager is free in what a fetch *)
(* returns: here the fetch that follows a PUT returns, as the lone entry   *)
(* of its result, the payload that the PUT sent.                           *)
(***************************************************************************)
\* The requests PUT channel/:id of the round trip.
PutRequests ==
    [method : {"PUT"}, path : {<<"channel", ChannelIdSeq[1]>>},
     auth : {NoAuth}, content_type : ContentTypeHeaders, body : Bodies]

\* A PUT channel/:id arrives.
ReceiveRoundTrip ==
    /\ pc = "idle"
    /\ req' \in PutRequests
    /\ pc' = "identity"
    /\ user' = NoUser
    /\ derived' = 0
    /\ body_read' = FALSE
    /\ rule' = -1
    /\ calls' = <<>>
    /\ resp' = NoResponse
    /\ nresp' = 0
    /\ UNCHANGED exvars

\* The GET channel/:id that follows a PUT channel/:id which sent a binary
\* payload, by the same caller: handle() from its first line to its last
\* (the identity, lines 147-152, the fetch, binary_response!), the fetch
\* returning the payload that was sent as its lone entry.
GetBack ==
    /\ pc = "done" /\ rule = 2 /\ Len(calls) = 1
    /\ calls[1].args[1][1].payload.format = "binary"
    /\ LET get  == [method |-> "GET", path |-> req.path, auth |-> req.auth,
                    content_type |-> None, body |-> Body(BodyEmpty)]
           plan == get_channel_id(get, Identity(req.auth).v)
           res  == [k \in {req.path[2]} |-> Ok(Some(calls[1].args[1][1].payload))]
       IN /\ req' = get
          /\ user' = Identity(get.auth).v
          /\ derived' = 1
          /\ rule' = 1
          /\ calls' = <<[op |-> plan.op, args |-> plan.args, user |-> plan.user,
                         result |-> res]>>
          /\ body_read' = plan.read
          /\ IF Encode(plan.encoder, res) = Panic
             THEN pc' = "panicked" /\ resp' = NoResponse /\ nresp' = 0
             ELSE pc' = "done" /\ resp' = Encode(plan.encoder, res) /\ nresp' = 1
    /\ UNCHANGED exvars

RoundTripNext ==
    \/ ReceiveRoundTrip
    \/ ExtractIdentity
    \/ PutChannelId
    \/ GetBack
    \/ Forget

NoResult == [tag |-> "NoResult"]

ExInit ==
    /\ ex_a \in ExactlyValues
    /\ ex_b \in ExactlyValues
    /\ ex_c \in ExactlyValues
    /\ ex_r = NoResult
    /\ fold_acc = default
    /\ fold_prev = default
    /\ fold_in = default
    /\ fold_n = 0
    /\ RtIdle

\* The combinations of the three drawn constraints, each by a call of and.
ExApply ==
    /\ ex_r = NoResult
    /\ ex_r' = [ab   |-> and(ex_a, ex_b),
                ba   |-> and(ex_b, ex_a),
                ab_c |-> and(and(ex_a, ex_b), ex_c),
                a_bc |-> and(ex_a, and(ex_b, ex_c)),
                da   |-> and(default, ex_a),
                ad   |-> and(ex_a, default)]
    /\ UNCHANGED <<ex_a, ex_b, ex_c, fold_acc, fold_prev, fold_in, fold_n>>
    /\ UNCHANGED rtvars

\* One step of a fold of constraints: acc = acc.and(x).
FoldStep ==
    /\ fold_n < MaxFold
    /\ \E x \in ExactlyValues :
         /\ fold_in' = x
         /\ fold_prev' = fold_acc
         /\ fold_acc' = and(fold_acc, x)
    /\ fold_n' = fold_n + 1
    /\ UNCHANGED <<ex_a, ex_b, ex_c, ex_r>>
    /\ UNCHANGED rtvars

ExNext == ExApply \/ FoldStep

SpecExactly == ExInit /\ [][ExNext]_vars

\* The router: no constraint is being combined.
Init ==
    /\ ex_a = default /\ ex_b = default /\ ex_c = default
    /\ ex_r = NoResult
    /\ fold_acc = default /\ fold_prev = default /\ fold_in = default
    /\ fold_n = 0
    /\ RtIdle

Next ==
    \/ Receive
    \/ ExtractIdentity
    \/ GetChannelId
    \/ PutChannelId
    \/ GetPostApi
    \/ PayloadApi
    \/ PayloadApi2
    \/ Fallthrough
    \/ Forget

Spec == Init /\ [][Next]_vars

SpecRoundTrip == Init /\ [][RoundTripNext]_vars

(***************************************************************************)
(* Claims about Exactly::and                                               *)
(***************************************************************************)

\* C1: Exactly::and is commutative and associative: and(a, b) = and(b, a) and
\* and(and(a, b), c) = and(a, and(b, c)) for all constraints a, b, c.
C1_AndCommutativeAssociative ==
    ex_r # NoResult => /\ ex_r.ab = ex_r.ba
                       /\ ex_r.ab_c = ex_r.a_bc

\* Witness of C1: three Exactly constraints, two equal and one different, have
\* been combined (the case where the order of combination could matter).
C1_Witness ==
    /\ ex_r # NoResult
    /\ ex_a.tag = "Exactly" /\ ex_b.tag = "Exactly" /\ ex_c.tag = "Exactly"
    /\ ex_a = ex_b /\ ex_b # ex_c
    /\ ex_r.ab_c = Conflict

\* The table of the combine operation, as the specification states it.
CombineTable(a, b) ==
    CASE a = Conflict \/ b = Conflict -> Conflict
      [] a # Conflict /\ b # Conflict /\ a = Empty -> b
      [] a # Conflict /\ b # Conflict /\ a # Empty /\ b = Empty -> a
      [] OTHER -> IF a.v = b.v THEN Exactly(a.v) ELSE Conflict

\* C2: for every pair of constraints Exactly::and returns the value of the
\* table: Conflict absorbs, Empty (the default) is a two-sided identity, equal
\* Exactly values give that value and unequal ones give Conflict.
C2_AndTable ==
    ex_r # NoResult => /\ ex_r.ab = CombineTable(ex_a, ex_b)
                       /\ ex_r.ba = CombineTable(ex_b, ex_a)
                       /\ ex_r.da = ex_a
                       /\ ex_r.ad = ex_a

\* Witness of C2: two unequal Exactly constraints were combined to Conflict.
C2_Witness ==
    /\ ex_r # NoResult
    /\ ex_a.tag = "Exactly" /\ ex_b.tag = "Exactly" /\ ex_a.v # ex_b.v
    /\ ex_r.ab = Conflict

\* C3: in a fold with Exactly::and, once the accumulator is Conflict it stays
\* Conflict after every further step, whatever the input.
C3_ConflictAbsorbing == [][fold_acc = Conflict => fold_acc' = Conflict]_vars

\* Witness of C3: a fold whose accumulator was Conflict has combined it with an
\* Exactly input, and the accumulator is still Conflict.
C3_Witness ==
    /\ fold_n >= 3
    /\ fold_prev = Conflict
    /\ fold_in.tag = "Exactly"
    /\ fold_acc = Conflict

(***************************************************************************)
(* Claims about the router                                                 *)
(***************************************************************************)

\* The request has been handled to its end / has been taken by a rule.
Handled == pc \in {"done", "panicked"}
Dispatched == Handled /\ rule # -1
PastIdentity == pc \notin {"idle", "identity"}

\* The interface table of the specification: the operation of each
\* (method, path), "none" for a pair that is not in the table.
IsChannelId(path) == Len(path) = 2 /\ path[1] = "channel"

TableOp(method, path) ==
    CASE path = <<"services">> /\ method \in {"GET", "POST"} -> "get_services"
      [] path = <<"channels">> /\ method \in {"GET", "POST"} -> "get_channels"
      [] path = <<"services", "tags">> /\ method = "POST" -> "add_service_tags"
      [] path = <<"services", "tags">> /\ method = "DELETE" -> "remove_service_tags"
      [] path = <<"channels", "tags">> /\ method = "POST" -> "add_channel_tags"
      [] path = <<"channels", "tags">> /\ method = "DELETE" -> "remove_channel_tags"
      [] path = <<"channels", "get">> /\ method = "PUT" -> "fetch_values"
      [] path = <<"channels", "set">> /\ method = "PUT" -> "send_values"
      [] IsChannelId(path) /\ method = "GET" -> "fetch_values"
      [] IsChannelId(path) /\ method = "PUT" -> "send_values"
      [] OTHER -> "none"

InTable(method, path) == TableOp(method, path) # "none"

\* The Content-Type headers of the model that declare JSON: those whose
\* media type starts with application/json.
JsonDeclared ==
    { Some("application/json"), Some("application/json;charset=utf-8"),
      Some("Application/JSON"), Some("application/jsonx"),
      Some("application/json-patch+json") }

\* The routes that read a body, and those of them that decode it as JSON.
BodyRoute(r) ==
    \/ r.path \in {<<"services">>, <<"channels">>} /\ r.method = "POST"
    \/ r.path \in {<<"channels", "get">>, <<"channels", "set">>} /\ r.method = "PUT"
    \/ r.path \in {<<"services", "tags">>, <<"channels", "tags">>}
         /\ r.method \in {"POST", "DELETE"}
    \/ IsChannelId(r.path) /\ r.method = "PUT"

DecodingRoute(r) ==
    /\ BodyRoute(r)
    /\ IsChannelId(r.path) => r.content_type \in JsonDeclared

\* The connection fails while the body is read.
ReadFails(r) == r.body.broken

\* The body was read and does not decode.
DecodeFails(r) ==
    LET text == FromUtf8(r.body.bytes, 1, <<>>)
    IN /\ ~ReadFails(r)
       /\ \/ text.tag = "Err"
          \/ /\ text.tag = "Ok"
             /\ CASE IsChannelId(r.path) -> SerdeFromStr(text.v).tag = "Err"
                  [] r.path = <<"channels", "set">> -> TargetMapFromStr(text.v).tag = "Err"
                  [] r.path \in {<<"services", "tags">>, <<"channels", "tags">>} ->
                       \/ SerdeFromStr(text.v).tag = "Err"
                       \/ /\ SerdeFromStr(text.v).tag = "Ok"
                          /\ \/ Take(SerdeFromStr(text.v).v, r.path[1]).tag = "Err"
                             \/ Take(SerdeFromStr(text.v).v, "tags").tag = "Err"
                  [] OTHER -> VecSelectorFromStr(text.v).tag = "Err"

\* The body of the request is read to its end and, where the route decodes
\* it, decodes.
BodyDecodes(r) ==
    /\ ~(BodyRoute(r) /\ ReadFails(r))
    /\ ~(DecodingRoute(r) /\ DecodeFails(r))

Pinned(id) == [id |-> Exactly(CodePoints(id))]

\* The text of the body of a request (no text when it is not UTF-8).
BodyText(r) ==
    IF FromUtf8(r.body.bytes, 1, <<>>).tag = "Ok"
    THEN FromUtf8(r.body.bytes, 1, <<>>).v
    ELSE <<>>

\* The result map of a fetch, and its lone binary value if it has one.
IsBinaryEntry(e) ==
    /\ e.tag = "Ok"
    /\ e.v.tag = "Some"
    /\ e.v.v.format = "binary"
    /\ e.v.v.raw

LoneBinary(map) ==
    /\ Cardinality(DOMAIN map) = 1
    /\ \A k \in DOMAIN map : IsBinaryEntry(map[k])

LoneValue(map) == map[CHOOSE k \in DOMAIN map : TRUE].v.v

FetchAnswered ==
    /\ Dispatched
    /\ TableOp(req.method, req.path) = "fetch_values"
    /\ Len(calls) = 1

\* C4: on a fetch route the response is the raw binary body (status 200, the
\* content type the value's mimetype, the body the value's bytes) if and only
\* if the result map has exactly one entry and it is a success with a binary
\* value; in every other case it is the result map as JSON, status 200.
C4_SingletonBinaryRule ==
    FetchAnswered =>
        LET map == calls[1].result
        IN IF LoneBinary(map)
           THEN /\ pc = "done"
                /\ resp.status = 200
                /\ resp.content_type = Some(LoneValue(map).mimetype)
                /\ resp.body = [tag |-> "bytes", v |-> LoneValue(map).bytes]
           ELSE /\ pc = "done"
                /\ resp = Response(200, Some(AppJson), [tag |-> "json", v |-> map])

\* The arguments the interface table gives the operation of a request whose
\* body decodes.
TableArgs(r) ==
    CASE r.path \in {<<"services">>, <<"channels">>} /\ r.method = "GET" ->
            << <<SelectorNew>> >>
      [] r.path \in {<<"services">>, <<"channels">>, <<"channels", "get">>}
         /\ r.method # "GET" ->
            <<VecSelectorFromStr(BodyText(r)).v>>
      [] r.path = <<"channels", "set">> -> <<TargetMapFromStr(BodyText(r)).v>>
      [] r.path \in {<<"services", "tags">>, <<"channels", "tags">>} ->
            <<Take(SerdeFromStr(BodyText(r)).v, r.path[1]).v,
              Take(SerdeFromStr(BodyText(r)).v, "tags").v>>
      [] IsChannelId(r.path) /\ r.method = "GET" -> << <<Pinned(r.path[2])>> >>

CallMatchesTable(call, r) ==
    /\ call.op = TableOp(r.method, r.path)
    /\ IF IsChannelId(r.path) /\ r.method = "PUT"
       THEN /\ Len(call.args) = 1
            /\ Len(call.args[1]) = 1
            /\ call.args[1][1].select = <<Pinned(r.path[2])>>
       ELSE call.args = TableArgs(r)

\* C5: each (method, path) of the interface table invokes its operation and
\* no other, with the arguments of the table (a single unconstrained selector
\* on GET, the decoded selectors on POST, both decoded arguments on the tag
\* paths); the operation is invoked once when the body decodes.
C5_RouteTable ==
    Dispatched =>
        /\ \A k \in 1..Len(calls) : CallMatchesTable(calls[k], req)
        /\ Len(calls) <= 1
        /\ (InTable(req.method, req.path) /\ BodyDecodes(req)) => Len(calls) = 1

\* Witness of C5: DELETE /channels/tags has invoked remove_channel_tags with
\* the selectors and the tags of the body.
C5_Witness ==
    /\ Dispatched
    /\ req.method = "DELETE" /\ req.path = <<"channels", "tags">>
    /\ Len(calls) = 1
    /\ calls[1].op = "remove_channel_tags"
    /\ calls[1].args = << <<Pinned("c1")>>, <<CodePoints("t1")>> >>

NotFound(r) ==
    Response(404, None, [tag |-> "text", v |-> <<"Unknown url: ", r.path>>])

\* C6 as claimed, for the requests that reach dispatch (any other reading of
\* the claim is stronger): a (method, path) that is not in the interface table
\* gets the 404 that names the url, and no manager operation is invoked.
C6_UnmatchedIs404 ==
    (Dispatched /\ ~InTable(req.method, req.path)) =>
        /\ pc = "done"
        /\ resp = NotFound(req)
        /\ calls = <<>>

\* C6 amended: for a request that passes the identity extraction and whose
\* (method, path) is not in the interface table no manager operation is
\* invoked, and the response is the 404 that names the url, except on the
\* paths /services and /channels, where a method other than GET and POST gets
\* 405 with the body "Bad method: <method>".
C6_UnmatchedIs404Or405 ==
    (Dispatched /\ ~InTable(req.method, req.path)) =>
        /\ pc = "done"
        /\ calls = <<>>
        /\ IF req.path \in {<<"services">>, <<"channels">>}
           THEN resp = Response(405, None,
                                [tag |-> "text", v |-> <<"Bad method: ", req.method>>])
           ELSE resp = NotFound(req)

\* Witness of C6: PUT /services was answered 405, and no operation was invoked.
C6_Witness ==
    /\ Dispatched
    /\ req.method = "PUT" /\ req.path = <<"services">>
    /\ resp.status = 405
    /\ calls = <<>>

TokenFails(auth) ==
    /\ auth.scheme = "Bearer"
    /\ SessionTokenFromString(auth.token).tag = "Err"

\* C7: a bearer token that fails the session verification gets 401 and the
\* processing stops there, whatever the method and the path: the body is not
\* read, no rule takes the request, no manager operation is invoked.
C7_InvalidTokenIs401 ==
    (PastIdentity /\ TokenFails(req.auth)) =>
        /\ pc = "done"
        /\ resp = Response(401, None, NoBody)
        /\ nresp = 1
        /\ ~body_read
        /\ rule = -1
        /\ calls = <<>>

\* Witness of C7: a request with a forged token on a path that matches no
\* route was answered 401.
C7_Witness ==
    /\ pc = "done"
    /\ TokenFails(req.auth)
    /\ req.path = <<"bogus">>
    /\ resp.status = 401

\* The identity the specification gives a request.
SubjectOf(auth) == UserId(SessionTokenFromString(auth.token).v.claims.id)

\* C8: the identity is derived once per request, before dispatch; without an
\* Authorization header it is the anonymous identity and the request is
\* dispatched; with a valid bearer token it is the identity of the subject of
\* the token; fetch_values and send_values are handed that identity.
C8_IdentityOnce ==
    /\ derived <= 1
    /\ PastIdentity => derived = 1
    /\ (PastIdentity /\ req.auth = NoAuth) =>
          /\ user = UserNone
          /\ pc = "dispatch" \/ rule # -1
    /\ (PastIdentity /\ req.auth.scheme = "Bearer" /\ ~TokenFails(req.auth)) =>
          /\ user = SubjectOf(req.auth)
          /\ pc = "dispatch" \/ rule # -1
    /\ \A k \in 1..Len(calls) :
          calls[k].op \in {"fetch_values", "send_values"} =>
             /\ calls[k].user = user
             /\ user # NoUser

\* Witness of C8: fetch_values was invoked for GET /channel/:id with the
\* identity of the subject of a valid token.
C8_Witness ==
    /\ Dispatched
    /\ req.method = "GET" /\ IsChannelId(req.path)
    /\ req.auth = Bearer("tok_bob")
    /\ Len(calls) = 1
    /\ calls[1].op = "fetch_values"
    /\ calls[1].user = UserId(2)

\* C9: on every route that decodes a body, a body that fails to decode gets
\* 400 with the serialized parse error, and the operation is not invoked.
C9_DecodeFailureIs400 ==
    (Dispatched /\ DecodingRoute(req) /\ DecodeFails(req)) =>
        /\ calls = <<>>
        /\ pc = "done"
        /\ resp.status = 400
        /\ resp.body.tag = "json"
        /\ resp.body.v.tag = "ParseError"

\* The spelling of a media type of the model in lower case, each parameter
\* after "; " and without quotes; a parameter that is none is left out.  A
\* text that is written so, or that is no media type, is its own spelling.
Spelling(m) ==
    CASE m = "Application/JSON" -> "application/json"
      [] m = "application/json;charset=utf-8" -> "application/json; charset=utf-8"
      [] m = "IMAGE/PNG" -> "image/png"
      [] m = "text/plain;charset=UTF-8" -> "text/plain; charset=utf-8"
      [] m = "text/plain; name=\"a b\"" -> "text/plain; name=a b"
      [] m = "image/png; =x" -> "image/png"
      [] OTHER -> m

\* The content type the router reads from a Content-Type header:
\* application/octet-stream when the header is absent or is no media type,
\* the spelling of the media type otherwise.
Rendering(declared) ==
    IF declared.tag = "None" \/ declared.v = "bogus"
    THEN "application/octet-stream"
    ELSE Spelling(declared.v)

\* The content type of the response that carries a binary value of that
\* mimetype: the rendering read once more, which leaves out a parameter
\* whose value is no token.
ResponseType(declared) ==
    IF declared.tag = "Some" /\ declared.v = "text/plain; name=\"a b\""
    THEN "text/plain"
    ELSE Rendering(declared)

PutHandled ==
    /\ Dispatched
    /\ req.method = "PUT" /\ IsChannelId(req.path)

\* The payload of the only target of the only call.
SentPayload == calls[1].args[1][1].payload

OneTargetPinned(call, r) ==
    /\ call.op = "send_values"
    /\ Len(call.args) = 1
    /\ Len(call.args[1]) = 1
    /\ call.args[1][1].select = <<Pinned(r.path[2])>>

\* C10 as claimed, read in its favour (a media type is the declared one in
\* whatever case and spacing it is written): on PUT /channel/:id a declared
\* content type that starts with application/json has the body sent as the
\* JSON it parses to; any other declared content type has the body sent,
\* byte for byte, as a binary payload of the declared content type; no
\* content type has it sent as application/octet-stream; in all cases to one
\* target pinned to the id.
C10_FormatFromDeclaredType ==
    (PutHandled /\ Len(calls) = 1) =>
        /\ OneTargetPinned(calls[1], req)
        /\ IF req.content_type.tag = "None"
           THEN SentPayload = BinaryPayload("application/octet-stream", req.body.bytes)
           ELSE IF req.content_type \in JsonDeclared
           THEN SentPayload = StructuredPayload(SerdeFromStr(BodyText(req)).v)
           ELSE SentPayload = BinaryPayload(Spelling(req.content_type.v),
                                            req.body.bytes)

\* C10 amended: the format is chosen from the content type the router reads
\* from the header alone (application/octet-stream when the header is absent
\* or is no media type, otherwise the media type in lower case with its
\* parameters after "; ").  When it starts with application/json, character
\* for character, the body is parsed as JSON and the document is sent as a
\* structured payload, nothing being sent when the body cannot be read or is
\* not JSON; otherwise the whole body, unparsed, is sent as a binary payload
\* of that content type, nothing being sent when the body cannot be read.
\* What is sent goes to send_values once, as one target pinned to the id of
\* the path.
C10_FormatFromRenderedType ==
    PutHandled =>
        IF req.content_type \in JsonDeclared
        THEN IF ReadFails(req) \/ DecodeFails(req)
             THEN calls = <<>>
             ELSE /\ Len(calls) = 1
                  /\ OneTargetPinned(calls[1], req)
                  /\ SentPayload = StructuredPayload(SerdeFromStr(BodyText(req)).v)
        ELSE IF ReadFails(req)
             THEN calls = <<>>
             ELSE /\ Len(calls) = 1
                  /\ OneTargetPinned(calls[1], req)
                  /\ SentPayload = BinaryPayload(Rendering(req.content_type),
                                                 req.body.bytes)

\* Witness of C10: a body declared application/jsonx, a content type that
\* starts with application/json, was parsed and sent as the JSON document
\* {"json_body": true}.
C10_Witness ==
    /\ PutHandled
    /\ Len(calls) = 1
    /\ req.content_type = Some("application/jsonx")
    /\ req.body = Body(BodyJsonObject)
    /\ SentPayload =
         StructuredPayload(JObj([k \in {CodePoints("json_body")} |-> JBool(TRUE)]))

\* The step from a PUT channel/:id that was answered to the GET channel/:id
\* whose fetch returns the payload that the PUT sent.
FetchedBack == pc = "done" /\ rule = 2 /\ rule' = 1

Accepted(r) ==
    /\ ~TokenFails(r.auth)
    /\ InTable(r.method, r.path)
    /\ BodyDecodes(r)

\* The operations whose result is a map from an identifier to a result or an
\* error.
MapOps == ManagerOps \ {"get_services", "get_channels"}

ErrorsEmbedded(call, response) ==
    call.op \in MapOps =>
        \A k \in DOMAIN call.result :
            call.result[k].tag = "Err" =>
                /\ response.body.tag = "json"
                /\ k \in DOMAIN response.body.v
                /\ response.body.v[k] = call.result[k]

\* C12: the errors the manager reports per entity never change the transport
\* status: a request that is authenticated, matches a route and decodes is
\* answered 200, and each error is the value of its key in the serialized
\* result map.
C12_EntityErrorsKeep200 ==
    (Handled /\ Accepted(req)) =>
        /\ pc = "done"
        /\ resp.status = 200
        /\ \A k \in 1..Len(calls) : ErrorsEmbedded(calls[k], resp)

\* C13: each request is attempted once: at most one manager operation is
\* invoked, exactly one when the request is authenticated, matches a route
\* and decodes, and the request ends with exactly one response.
C13_AttemptedOnce ==
    Handled =>
        /\ Len(calls) <= 1
        /\ Accepted(req) => Len(calls) = 1
        /\ pc = "done"
        /\ nresp = 1

\* The rules of handle() that match a request.
MatchingRules(r) == {i \in 1..NumRules : RuleMatches(i, r.method, r.path)}

\* C14: the rules of dispatch exclude one another: at most one matches any
\* method and path, so the rule that takes the request is the same in
\* whatever order the rules are tried, and it is the only one to run (one
\* rule recorded, at most one call, at most one response).
C14_RulesExclusive ==
    /\ pc # "idle" => Cardinality(MatchingRules(req)) <= 1
    /\ Dispatched =>
          /\ MatchingRules(req) = IF rule = 0 THEN {} ELSE {rule}
          /\ Len(calls) <= 1
          /\ nresp <= 1

\* Witness of C14: PUT /channels/get, whose path is one letter from
\* channel/:id, was taken by the rule of channels/get alone.
C14_Witness ==
    /\ Dispatched
    /\ req.method = "PUT" /\ req.path = <<"channels", "get">>
    /\ rule = 5
    /\ MatchingRules(req) = {5}

\* The request was answered by the answer of the fallthrough / of the bad
\* method.
BadMethod == rule \in {3, 4} /\ req.method \notin {"GET", "POST"}

\* C15 as claimed: the endpoint list of create() and the rules of handle()
\* describe the same (method, path) pairs: a pair of the list gets neither
\* the 404 of the fallthrough nor a bad-method response, and a pair that
\* handle() answers with something other than the 404 of the fallthrough is
\* in the list.
C15_EndpointsAreRules ==
    Dispatched =>
        /\ InEndpoints(req.method, req.path) => (rule # 0 /\ ~BadMethod)
        /\ rule # 0 => InEndpoints(req.method, req.path)

\* C15 amended: a pair of the endpoint list gets neither the 404 of the
\* fallthrough nor a bad-method response, and a pair that handle() answers
\* with something other than the 404 of the fallthrough or the 405 of a bad
\* method (PUT, DELETE, ... on /services and /channels) is in the list: no
\* manager operation is invoked for a pair that is not in the list.
C15_EndpointsAreServingRules ==
    Dispatched =>
        /\ InEndpoints(req.method, req.path) => (rule # 0 /\ ~BadMethod)
        /\ (rule # 0 /\ ~BadMethod) => InEndpoints(req.method, req.path)
        /\ calls # <<>> => InEndpoints(req.method, req.path)

\* Witness of C15: PUT /channels/set, a pair of the list, was served by its
\* rule, which invoked send_values.
C15_Witness ==
    /\ Dispatched
    /\ req.method = "PUT" /\ req.path = <<"channels", "set">>
    /\ InEndpoints(req.method, req.path)
    /\ rule = 6
    /\ Len(calls) = 1

====
